---- MODULE Spec2Model ----
(***************************************************************************)
(* A model of the ralph-tui execution orchestrator.                        *)
(*                                                                         *)
(* The module holds one state machine per subsystem, all over the same     *)
(* variables; each specification moves only its own subsystem:             *)
(*   SpecOrder     dotted-child ordering (task-ordering.ts)                *)
(*   SpecResolver  merge-conflict resolver (ai-resolver.ts)                *)
(*   SpecWorktree  session worktree lifecycle (session-worktree.ts)        *)
(*   Spec          scheduler, iteration engine and session manager         *)
(*                                                                         *)
(* Strings of the program (task ids, file contents) are sequences of       *)
(* one-character strings, so that parsing and comparing them is computed.  *)
(***************************************************************************)
EXTENDS Integers, Sequences, FiniteSets, TLC

VARIABLES
    \* ---- dotted-child ordering
    taskList,       \* the tracker listing handed to sortDottedChildTaskIds
    sortedOnce,     \* its result
    sortedTwice,    \* the result of a second pass over sortedOnce
    orderPc,        \* "build" | "sorted" | "resorted"
    \* ---- conflict resolver
    conflict,       \* the FileConflict handed to the resolver callback
    resolverPc,     \* "idle" | "called" | "agent" | "done"
    agentSpawned,   \* number of agent.execute calls made by the callback
    resolution,     \* what the callback returned (null is Null)
    resolverConfig, \* the two enabled settings of the configuration
    aiResolver,     \* "unset" | "null" | "callback": what setAiResolver got
    fastResult,     \* what tryFastPathResolution returned in this call
    agentRun,       \* the agent's availability and the result of its execution
    resolverThrew,  \* the callback threw
    \* ---- session worktree
    repo,           \* the git repository and the worktree directory on disk
    wtPc,           \* where the run command is in the worktree lifecycle
    wtMode,         \* mode prepareSessionWorktree returned
    outcome,        \* how the session's run loop ended
    originalBranch, \* mergeSessionWorktree's local: the branch merged into
    mergeResult,    \* MergeResult.success: "none" | "success" | "failure"
    startBranch,    \* the branch HEAD named when the session started
    gitLog,         \* git commands of mergeSessionWorktree, with their outcome
    wtResume,       \* options.resume of the last prepareSessionWorktree
    \* ---- scheduler, iteration engine, session manager
    taskStatus,     \* the tracker: status of every task
    listing,        \* the tracker listing taken at the last scheduling pass
    current,        \* the task admitted to the running iteration
    enginePc,       \* "off" | "select" | "agent" | "exited"
    engineStatus,   \* the engine's state.status: "idle" | "running"
    iteration,      \* iterations run since this start or resume
    budget,         \* --iterations of this run
    lastIter,       \* the record of the last finished iteration
    session,        \* the session: id, lifecycle status, stopReason
    sessionFile,    \* .ralph-tui/session.json exists
    exitDecision,   \* what the caller did with session.json at the last exit
    lock,           \* pid in .ralph-tui/ralph.lock, 0 when there is no file
    rival,          \* another ralph-tui process in the same cwd
    everForced,     \* some start attempt was given --force
    lastStart,      \* the last start attempt and how it ended
    \* ---- agent adapter: model resolution and the command line
    defaultFlags,   \* BaseAgentPlugin.defaultFlags (initialize)
    agentModel,     \* the model the adapter's own buildArgs adds
    cliModel,       \* RalphConfig.model (--model)
    taskModel,      \* task.model of the task of this iteration
    resolved,       \* result of resolveModelForTask
    modelWarnings,  \* models a warning was logged for
    flags,          \* options.flags: the engine-injected flags
    allArgs,        \* the argument list the agent is spawned with
    agentPc,        \* "init" | "ready" | "task" | "resolved" | "flagged" | "executed"
    \* ---- resume command
    registry,       \* session registry: the set of SessionRegistryEntry
    sessionFiles,   \* working directories that hold a session.json
    resumeArgs,     \* ResumeArgs: sessionId ("none" when not given), cwd
    resumeResult,   \* what resolveSession returned, with the error it printed
    sessionKnownTaskCount,  \* tasks the session file records
    engineTaskCount,        \* tasks the engine loaded from the tracker
    mismatchWarned, \* the tracker-mismatch warning was emitted
    resumePc,       \* "idle" | "resolved" | "initialized" | "ended"
    \* ---- cancellation: the shutdown of a running session
    shutdownPc,     \* "running" | "signal" | "await" | "persist" | "exit" | "exited" | "killed"
    agentRunning,   \* the agent subprocess of the current iteration is alive
    commitsInFlight,\* git commits of the agent that have not finished
    sigints,        \* SIGINTs received
    shutdownReason, \* the stop reason of the shutdown under way
    iterationsDone, \* iterations the session has finished
    persistedStopReason,    \* stopReason in the persisted state
    stepsRun,       \* how often each shutdown step has run
    \* ---- parallel executor
    dependencyGraph,\* Task.dependencies of every task of the session
    parallelStatus, \* the tracker status of every task
    workers,        \* every worker: its task and where it is in its loop
    mergeOrder,     \* tasks whose worker branch was merged, in merge order
    mergeMutex,     \* the worker that holds the global merge mutex, 0 if free
    cycleLogs,      \* how often a dependency cycle was logged
    parallelPc,     \* "loading" | "running" | "ended"
    \* ---- error-handling policy of the iteration engine
    errorHandling,  \* the session's policy: strategy, maxRetries
    policyTask,     \* the task of the iteration under way, "none" between two
    retryCount,     \* re-runs of policyTask after its first failure
    failedThisSession,  \* tasks marked failed for this session
    policyClosed,   \* tasks closed in the tracker
    policyStopReason,   \* stop reason of the session, "none" while it runs
    runsOfTask,     \* iterations run on every task in this session
    policyPc,       \* "config" | "select" | "agent" | "stopped"
    \* ---- tracker data of a session worktree
    fsFiles,        \* the file system: contents of every file, by path
    fsBefore,       \* the file system as copyTrackerData found it
    copyCall,       \* the arguments of copyTrackerData
    copyReturn,     \* what copyTrackerData returned
    fsOnce,         \* the file system after the first preserveIterationLogs
    filesPc,        \* "idle" | "copy" | "copied" | "preserve" | "preserved"
                    \* | "preserved again"
    \* ---- environment filter of the agent adapter
    processEnv,     \* names of the variables of process.env, in its order
    envPassthrough, \* envPassthrough of the agent's configuration
    envExclude,     \* envExclude of the agent's configuration
    exclusionReport,\* the last EnvExclusionReport: blocked, allowed
    envFilterPc,    \* "init" | "ready" | "reported"
    \* ---- free-space check of worktree creation
    diskProbe,      \* free bytes of the volume, what statfs and df read, --resume
    diskRepo,       \* the repository before prepareSessionWorktree
    diskPrepared,   \* what prepareSessionWorktree returned or threw
    diskPc,         \* "idle" | "prepare" | "prepared"
    \* ---- session name
    nameInput,      \* the string given to sanitizeBranchSegment
    sessionName,    \* the sanitized name
    namePc,         \* "idle" | "derived"
    \* ---- extraction of the agent's output
    extractStdout,  \* the stdout handed to extractResolvedContent
    extracted,      \* what it returned (null is Null)
    extractPc,      \* "idle" "extracted"
    \* ---- copy of the beads directory
    beadsFs,        \* the files of the project and of the worktree
    beadsBefore,    \* the files before copyTrackerData
    beadsCall,      \* the arguments of copyTrackerData
    beadsSync,      \* the sync command copyTrackerData ran and whether it worked
    beadsPc,        \* "idle" "copy" "copied"
    \* ---- remote instance tabs
    tabs,           \* InstanceManager.tabs
    selectedIndex,  \* InstanceManager.selectedIndex (0 is the first tab)
    clients,        \* InstanceManager.clients: alias to the status of its RemoteClient
    remoteConfigs,  \* the aliases InstanceManager.remoteConfigs has
    detached,       \* aliases of clients that were disconnected and dropped from the map
    quiet,          \* aliases not selected since disconnectAll returned
    instPc,         \* "constructed" "ready"
    \* ---- sandbox wrapper
    sandboxCall,    \* the configuration, requirements, cwd, command and args of wrapWithBwrap
    wrapped,        \* the WrappedCommand it returned
    sandboxPc       \* "idle" "wrapped"

orderVars == <<taskList, sortedOnce, sortedTwice, orderPc>>
resolverVars == <<conflict, resolverPc, agentSpawned, resolution,
                  resolverConfig, aiResolver, fastResult, agentRun,
                  resolverThrew>>
worktreeVars == <<repo, wtPc, wtMode, outcome, originalBranch, mergeResult,
                  startBranch, gitLog, wtResume>>
trackerVars == <<taskStatus, listing, current>>
loopVars == <<enginePc, engineStatus, iteration, budget, lastIter>>
sessionVars == <<session, sessionFile, exitDecision>>
lockVars == <<lock, rival, everForced, lastStart>>
engineVars == <<trackerVars, loopVars, sessionVars, lockVars>>
agentVars == <<defaultFlags, agentModel, cliModel, taskModel, resolved,
               modelWarnings, flags, allArgs, agentPc>>
resumeVars == <<registry, sessionFiles, resumeArgs, resumeResult,
                sessionKnownTaskCount, engineTaskCount, mismatchWarned, resumePc>>
shutdownVars == <<shutdownPc, agentRunning, commitsInFlight, sigints,
                  shutdownReason, iterationsDone, persistedStopReason, stepsRun>>
parallelVars == <<dependencyGraph, parallelStatus, workers, mergeOrder,
                  mergeMutex, cycleLogs, parallelPc>>
policyVars == <<errorHandling, policyTask, retryCount, failedThisSession,
                policyClosed, policyStopReason, runsOfTask, policyPc>>
filesVars == <<fsFiles, fsBefore, copyCall, copyReturn, fsOnce, filesPc>>
envFilterVars == <<processEnv, envPassthrough, envExclude, exclusionReport,
                   envFilterPc>>
diskVars == <<diskProbe, diskRepo, diskPrepared, diskPc>>
nameVars == <<nameInput, sessionName, namePc>>
extractVars == <<extractStdout, extracted, extractPc>>
beadsVars == <<beadsFs, beadsBefore, beadsCall, beadsSync, beadsPc>>
instVars == <<tabs, selectedIndex, clients, remoteConfigs, detached, quiet, instPc>>
sandboxVars == <<sandboxCall, wrapped, sandboxPc>>
vars == <<orderVars, resolverVars, worktreeVars, engineVars, agentVars,
          resumeVars, shutdownVars, parallelVars, policyVars, filesVars,
          envFilterVars, diskVars, nameVars, extractVars, beadsVars,
          instVars, sandboxVars>>

\* what a step of one subsystem leaves alone
OrderFrame ==
    UNCHANGED <<resolverVars, worktreeVars, engineVars, agentVars,
                resumeVars, shutdownVars, parallelVars, policyVars,
                filesVars, envFilterVars, diskVars, nameVars, extractVars,
                beadsVars, instVars, sandboxVars>>
ResolverFrame ==
    UNCHANGED <<orderVars, worktreeVars, engineVars, agentVars, resumeVars,
                shutdownVars, parallelVars, policyVars, filesVars,
                envFilterVars, diskVars, nameVars, extractVars, beadsVars,
                instVars, sandboxVars>>
WorktreeFrame ==
    UNCHANGED <<orderVars, resolverVars, engineVars, agentVars, resumeVars,
                shutdownVars, parallelVars, policyVars, filesVars,
                envFilterVars, diskVars, nameVars, extractVars, beadsVars,
                instVars, sandboxVars>>
EngineFrame ==
    UNCHANGED <<orderVars, resolverVars, worktreeVars, agentVars,
                resumeVars, shutdownVars, parallelVars, policyVars,
                filesVars, envFilterVars, diskVars, nameVars, extractVars,
                beadsVars, instVars, sandboxVars>>
AgentFrame ==
    UNCHANGED <<orderVars, resolverVars, worktreeVars, engineVars,
                resumeVars, shutdownVars, parallelVars, policyVars,
                filesVars, envFilterVars, diskVars, nameVars, extractVars,
                beadsVars, instVars, sandboxVars>>
ResumeFrame ==
    UNCHANGED <<orderVars, resolverVars, worktreeVars, engineVars,
                agentVars, shutdownVars, parallelVars, policyVars,
                filesVars, envFilterVars, diskVars, nameVars, extractVars,
                beadsVars, instVars, sandboxVars>>
ShutdownFrame ==
    UNCHANGED <<orderVars, resolverVars, worktreeVars, engineVars,
                agentVars, resumeVars, parallelVars, policyVars, filesVars,
                envFilterVars, diskVars, nameVars, extractVars, beadsVars,
                instVars, sandboxVars>>
ParallelFrame ==
    UNCHANGED <<orderVars, resolverVars, worktreeVars, engineVars,
                agentVars, resumeVars, shutdownVars, policyVars, filesVars,
                envFilterVars, diskVars, nameVars, extractVars, beadsVars,
                instVars, sandboxVars>>
PolicyFrame ==
    UNCHANGED <<orderVars, resolverVars, worktreeVars, engineVars,
                agentVars, resumeVars, shutdownVars, parallelVars,
                filesVars, envFilterVars, diskVars, nameVars, extractVars,
                beadsVars, instVars, sandboxVars>>
FilesFrame ==
    UNCHANGED <<orderVars, resolverVars, worktreeVars, engineVars,
                agentVars, resumeVars, shutdownVars, parallelVars,
                policyVars, envFilterVars, diskVars, nameVars, extractVars,
                beadsVars, instVars, sandboxVars>>
EnvFilterFrame ==
    UNCHANGED <<orderVars, resolverVars, worktreeVars, engineVars,
                agentVars, resumeVars, shutdownVars, parallelVars,
                policyVars, filesVars, diskVars, nameVars, extractVars,
                beadsVars, instVars, sandboxVars>>
DiskFrame ==
    UNCHANGED <<orderVars, resolverVars, worktreeVars, engineVars,
                agentVars, resumeVars, shutdownVars, parallelVars,
                policyVars, filesVars, envFilterVars, nameVars,
                extractVars, beadsVars, instVars, sandboxVars>>
NameFrame ==
    UNCHANGED <<orderVars, resolverVars, worktreeVars, engineVars,
                agentVars, resumeVars, shutdownVars, parallelVars,
                policyVars, filesVars, envFilterVars, diskVars,
                extractVars, beadsVars, instVars, sandboxVars>>
ExtractFrame ==
    UNCHANGED <<orderVars, resolverVars, worktreeVars, engineVars,
                agentVars, resumeVars, shutdownVars, parallelVars,
                policyVars, filesVars, envFilterVars, diskVars, nameVars,
                beadsVars, instVars, sandboxVars>>
BeadsFrame ==
    UNCHANGED <<orderVars, resolverVars, worktreeVars, engineVars,
                agentVars, resumeVars, shutdownVars, parallelVars,
                policyVars, filesVars, envFilterVars, diskVars, nameVars,
                extractVars, instVars, sandboxVars>>
InstFrame ==
    UNCHANGED <<orderVars, resolverVars, worktreeVars, engineVars,
                agentVars, resumeVars, shutdownVars, parallelVars,
                policyVars, filesVars, envFilterVars, diskVars, nameVars,
                extractVars, beadsVars, sandboxVars>>
SandboxFrame ==
    UNCHANGED <<orderVars, resolverVars, worktreeVars, engineVars,
                agentVars, resumeVars, shutdownVars, parallelVars,
                policyVars, filesVars, envFilterVars, diskVars, nameVars,
                extractVars, beadsVars, instVars>>

\* null / undefined of the program
Null == <<"<null>">>

-----------------------------------------------------------------------------
(***************************************************************************)
(* Bounds                                                                  *)
(***************************************************************************)
\* longest task list handed to the ordering routine
MaxTasks == 3
\* longest ours/theirs content of a FileConflict
MaxContent == 2
\* largest --iterations budget a run is started with
MaxBudget == 2
\* largest number of tasks a tracker or a session file reports
MaxCount == 2
\* most git commits in flight at once
MaxCommits == 2
\* --parallel: the number of workers
MaxWorkers == 2
\* largest errorHandling.maxRetries
MaxRetries == 2
\* most variables of an environment
MaxEnvVars == 3
\* most iteration logs written in a working directory
MaxLogs == 2
\* longest session name given, in tokens
MaxName == 4
MaxOutput == 6
MaxIndex == 3
MaxPaths == 2

-----------------------------------------------------------------------------
(***************************************************************************)
(* Characters and numbers                                                  *)
(***************************************************************************)
Digit == {"0", "1", "2", "3", "4", "5", "6", "7", "8", "9"}

DigitValue(c) ==
    CASE c = "0" -> 0 [] c = "1" -> 1 [] c = "2" -> 2 [] c = "3" -> 3
      [] c = "4" -> 4 [] c = "5" -> 5 [] c = "6" -> 6 [] c = "7" -> 7
      [] c = "8" -> 8 [] c = "9" -> 9

AllDigits(s) == \A i \in 1..Len(s) : s[i] \in Digit

\* Number("<digits>"): the decimal value; leading zeros do not count
RECURSIVE NumberOf(_)
NumberOf(s) ==
    IF s = <<>> THEN 0
    ELSE NumberOf(SubSeq(s, 1, Len(s) - 1)) * 10 + DigitValue(s[Len(s)])

Sign(n) == IF n < 0 THEN -1 ELSE IF n > 0 THEN 1 ELSE 0

-----------------------------------------------------------------------------
(***************************************************************************)
(* String.prototype.localeCompare(other, undefined,                        *)
(*                                {numeric: true, sensitivity: 'base'})    *)
(* Primary-strength collation: punctuation before digits before letters,   *)
(* letters without case, and a run of digits compared by its value.        *)
(***************************************************************************)
LetterRank(c) ==
    CASE c \in {"a", "A"} -> 1
      [] c \in {"b", "B"} -> 2
      [] c \in {"x", "X"} -> 24
      [] OTHER -> 27

\* length of the run of digits s starts with
RECURSIVE DigitRun(_)
DigitRun(s) ==
    IF s = <<>> \/ Head(s) \notin Digit THEN 0 ELSE 1 + DigitRun(Tail(s))

\* the first collation element of a non-empty string:
\* class 0 punctuation, 1 number, 2 letter
FirstElement(s) ==
    IF Head(s) \in Digit
    THEN LET n == DigitRun(s)
         IN  [class |-> 1, weight |-> NumberOf(SubSeq(s, 1, n)), len |-> n]
    ELSE IF Head(s) = "."
    THEN [class |-> 0, weight |-> 0, len |-> 1]
    ELSE [class |-> 2, weight |-> LetterRank(Head(s)), len |-> 1]

RECURSIVE localeCompare(_, _)
localeCompare(a, b) ==
    IF a = <<>> /\ b = <<>> THEN 0
    ELSE IF a = <<>> THEN -1
    ELSE IF b = <<>> THEN 1
    ELSE LET ea == FirstElement(a)
             eb == FirstElement(b)
         IN  IF ea.class # eb.class THEN Sign(ea.class - eb.class)
             ELSE IF ea.weight # eb.weight THEN Sign(ea.weight - eb.weight)
             ELSE localeCompare(SubSeq(a, ea.len + 1, Len(a)),
                                SubSeq(b, eb.len + 1, Len(b)))

-----------------------------------------------------------------------------
(***************************************************************************)
(* task-ordering.ts                                                        *)
(***************************************************************************)
\* index of the last "." of id, 0 when there is none
LastDot(id) ==
    LET dots == {i \in 1..Len(id) : id[i] = "."}
    IN  IF dots = {} THEN 0 ELSE CHOOSE i \in dots : \A j \in dots : j <= i

\* CHILD_TASK_ID_PATTERN = /^(.*)\.(\d+)$/ : the digits run to the end of the
\* id, so the dot that matches is the last one
CHILD_TASK_ID_PATTERN(id) ==
    LET d == LastDot(id)
    IN  /\ d > 0
        /\ d < Len(id)
        /\ AllDigits(SubSeq(id, d + 1, Len(id)))

undefined == [matched |-> FALSE]

parseChildTaskId(id) ==
    IF ~CHILD_TASK_ID_PATTERN(id) THEN undefined
    ELSE LET d == LastDot(id)
         IN  [matched |-> TRUE,
              rawId |-> id,
              prefix |-> SubSeq(id, 1, d - 1),
              issueNumber |-> NumberOf(SubSeq(id, d + 1, Len(id)))]

\* the comparator with the issue numbers compared as text ("10" before "2")
compareParsedChildIdsAsText(a, b) ==
    LET prefixComparison == localeCompare(a.prefix, b.prefix)
        da == SubSeq(a.rawId, LastDot(a.rawId) + 1, Len(a.rawId))
        db == SubSeq(b.rawId, LastDot(b.rawId) + 1, Len(b.rawId))
    IN  IF prefixComparison # 0 THEN prefixComparison
        ELSE IF da = db THEN 0
        ELSE IF \E k \in 1..Len(da) :
                   /\ k <= Len(db)
                   /\ SubSeq(da, 1, k - 1) = SubSeq(db, 1, k - 1)
                   /\ DigitValue(da[k]) < DigitValue(db[k])
             THEN -1
        ELSE IF Len(da) < Len(db) /\ da = SubSeq(db, 1, Len(da)) THEN -1
        ELSE 1

compareParsedChildIds(a, b) ==
    LET prefixComparison == localeCompare(a.prefix, b.prefix)
    IN  IF prefixComparison # 0 THEN prefixComparison
        ELSE IF a.issueNumber # b.issueNumber
             THEN a.issueNumber - b.issueNumber
        ELSE localeCompare(a.rawId, b.rawId)

\* Array.prototype.sort is stable: an entry goes before the first entry it
\* compares less than
RECURSIVE InsertEntry(_, _)
InsertEntry(e, s) ==
    IF s = <<>> THEN <<e>>
    ELSE IF compareParsedChildIds(e.parsed, Head(s).parsed) < 0
         THEN <<e>> \o s
         ELSE <<Head(s)>> \o InsertEntry(e, Tail(s))

RECURSIVE SortEntries(_)
SortEntries(s) ==
    IF s = <<>> THEN <<>>
    ELSE InsertEntry(s[Len(s)], SortEntries(SubSeq(s, 1, Len(s) - 1)))

\* the loop that collects {index, task, parsed} of every child id, in order
RECURSIVE ChildEntriesUpTo(_, _)
ChildEntriesUpTo(tasks, n) ==
    IF n = 0 THEN <<>>
    ELSE LET parsed == parseChildTaskId(tasks[n])
             before == ChildEntriesUpTo(tasks, n - 1)
         IN  IF parsed.matched
             THEN Append(before, [index |-> n, task |-> tasks[n], parsed |-> parsed])
             ELSE before

\* the write-back with the loop counter used as the target index
ReinsertByRank(tasks, childEntries, sortedChildren) ==
    [i \in 1..Len(tasks) |->
        IF i <= Len(childEntries) THEN sortedChildren[i].task ELSE tasks[i]]

\* result = tasks.slice(); result[childEntries[i].index] = sortedChildren[i]
Reinsert(tasks, childEntries, sortedChildren) ==
    [i \in 1..Len(tasks) |->
        IF \E k \in 1..Len(childEntries) : childEntries[k].index = i
        THEN LET k == CHOOSE k \in 1..Len(childEntries) : childEntries[k].index = i
             IN  sortedChildren[k].task
        ELSE tasks[i]]

sortDottedChildTaskIds(tasks) ==
    IF Len(tasks) < 2 THEN tasks
    ELSE LET childEntries == ChildEntriesUpTo(tasks, Len(tasks))
         IN  IF Len(childEntries) < 2 THEN tasks
             ELSE Reinsert(tasks, childEntries, SortEntries(childEntries))

\* The ids a tracker listing is built from: plain ids, children of two
\* parents, a leading zero, a capital letter, a nested child, a dotted id whose
\* suffix is no number, and an id with an empty prefix.
TaskIds ==
    { <<"a">>,
      <<"x", "1">>,
      <<"a", ".", "1">>,
      <<"a", ".", "2">>,
      <<"a", ".", "1", "0">>,
      <<"a", ".", "0", "2">>,
      <<"A", ".", "1">>,
      <<"b", ".", "1">>,
      <<"a", ".", "b">>,
      <<"a", ".", "1", ".", "3">>,
      <<".", "5">> }

OrderInit ==
    /\ taskList = <<>>
    /\ sortedOnce = <<>>
    /\ sortedTwice = <<>>
    /\ orderPc = "build"

\* the tracker lists one more task
ListTask(id) ==
    /\ OrderFrame
    /\ orderPc = "build"
    /\ Len(taskList) < MaxTasks
    /\ taskList' = Append(taskList, id)
    /\ UNCHANGED <<sortedOnce, sortedTwice, orderPc>>

\* the tracker plugin orders its listing
SortListing ==
    /\ OrderFrame
    /\ orderPc = "build"
    /\ sortedOnce' = sortDottedChildTaskIds(taskList)
    /\ orderPc' = "sorted"
    /\ UNCHANGED <<taskList, sortedTwice>>

\* the ordered listing goes through the routine again
SortAgain ==
    /\ OrderFrame
    /\ orderPc = "sorted"
    /\ sortedTwice' = sortDottedChildTaskIds(sortedOnce)
    /\ orderPc' = "resorted"
    /\ UNCHANGED <<taskList, sortedOnce>>

OrderNext ==
    \/ \E id \in TaskIds : ListTask(id)
    \/ SortListing
    \/ SortAgain

-----------------------------------------------------------------------------
(***************************************************************************)
(* ai-resolver.ts                                                          *)
(***************************************************************************)
Whitespace == {" ", "\n", "\t"}
ContentChars == {" ", "\n", "x"}

\* String.prototype.trim() === ''
TrimIsEmpty(s) == \A i \in 1..Len(s) : s[i] \in Whitespace

Contents == UNION {[1..n -> ContentChars] : n \in 0..MaxContent}

\* a fast path that keeps ours whenever one of the sides is empty
tryFastPathResolutionKeepingOurs(c) ==
    IF TrimIsEmpty(c.oursContent) # TrimIsEmpty(c.theirsContent)
    THEN c.oursContent
    ELSE IF c.oursContent = c.theirsContent THEN c.oursContent
    ELSE Null

tryFastPathResolution(c) ==
    LET oursEmpty == TrimIsEmpty(c.oursContent)
        theirsEmpty == TrimIsEmpty(c.theirsContent)
    IN  IF oursEmpty /\ ~theirsEmpty THEN c.theirsContent
        ELSE IF ~oursEmpty /\ theirsEmpty THEN c.oursContent
        ELSE IF c.oursContent = c.theirsContent THEN c.oursContent
        ELSE Null

\* the agent's stdout is a sequence of tokens: "FENCE" the three backquotes, "\n",
\* " ", "x" a word character (\w), "+" any other visible character
OutputTokens == {"FENCE", "\n", " ", "x", "+"}

RECURSIVE TrimStart(_)
TrimStart(s) ==
    IF s # <<>> /\ Head(s) \in Whitespace THEN TrimStart(Tail(s)) ELSE s

RECURSIVE TrimEnd(_)
TrimEnd(s) ==
    IF s # <<>> /\ s[Len(s)] \in Whitespace
    THEN TrimEnd(SubSeq(s, 1, Len(s) - 1))
    ELSE s

\* String.prototype.trim()
Trim(s) == TrimStart(TrimEnd(s))

RECURSIVE WordRunEnd(_, _)
\* [\w]* from position i on: the position after the run
WordRunEnd(s, i) ==
    IF i <= Len(s) /\ s[i] = "x" THEN WordRunEnd(s, i + 1) ELSE i

\* content.match(/^FENCE[\w]*\n([\s\S]*)\nFENCE$/): the captured group, or Null
FenceMatch(content) ==
    LET n == Len(content)
        k == WordRunEnd(content, 2)
    IN  IF /\ n >= 4
           /\ content[1] = "FENCE"
           /\ k < n - 1
           /\ content[k] = "\n"
           /\ content[n - 1] = "\n"
           /\ content[n] = "FENCE"
        THEN [matched |-> TRUE, group |-> SubSeq(content, k + 1, n - 2)]
        ELSE [matched |-> FALSE, group |-> <<>>]

\* an extraction that hands the stripped content on even when it is empty
extractResolvedContentAllowingEmpty(stdout) ==
    IF FenceMatch(Trim(stdout)).matched
    THEN FenceMatch(Trim(stdout)).group
    ELSE Trim(stdout)

extractResolvedContent(stdout) ==
    LET content == Trim(stdout)
        stripped == IF FenceMatch(content).matched
                    THEN FenceMatch(content).group
                    ELSE content
    IN  IF Len(stripped) = 0 THEN Null ELSE stripped

\* parallel.conflictResolution.enabled and conflictResolution.enabled of the
\* configuration: "unset", "true" or "false"
EnabledSettings == {"unset", "true", "false"}

NoConfig == [conflictResolution |-> "unset", parallelConflictResolution |-> "unset"]

\* a wiring that installs the callback whatever the configuration says
WireUpAlways(config) == "callback"

\* run.tsx: if (storedConfig?.parallel?.conflictResolution?.enabled !== false)
\*            parallelExecutor.setAiResolver(createAiResolver(config))
WireUp(config) ==
    IF config.parallelConflictResolution # "false" THEN "callback" ELSE "null"

AgentStatuses == {"completed", "failed"}

NoAgentRun ==
    [available |-> TRUE, throws |-> FALSE, status |-> "none", exitCode |-> 0,
     stdout |-> <<>>]

\* what the agent may print
AgentOutputs ==
    {<<>>, <<" ", "\n">>, <<" ", "x", "\n">>,
     <<"FENCE", "x", "\n", "x", "\n", "FENCE">>}

\* the file contents a conflict can hold when the resolution of a file begins
CallContents(wired) ==
    IF resolverPc = "idle" /\ aiResolver = wired THEN Contents ELSE {}

ResolverInit ==
    /\ conflict = Null
    /\ resolverPc = "idle"
    /\ agentSpawned = 0
    /\ resolution = Null
    /\ resolverConfig = NoConfig
    /\ aiResolver = "unset"
    /\ fastResult = Null
    /\ agentRun = NoAgentRun
    /\ resolverThrew = FALSE

\* run.tsx creates the ParallelExecutor and wires the resolver up
RunWiresResolver(top, par) ==
    /\ ResolverFrame
    /\ resolverPc = "idle"
    /\ aiResolver = "unset"
    /\ resolverConfig' = [conflictResolution |-> top,
                          parallelConflictResolution |-> par]
    /\ aiResolver' = WireUp(resolverConfig')
    /\ UNCHANGED <<conflict, resolverPc, agentSpawned, resolution, fastResult,
                   agentRun, resolverThrew>>

\* the conflict resolver calls the callback createAiResolver returned
CallResolver(ours, theirs) ==
    /\ ResolverFrame
    /\ resolverPc = "idle"
    /\ aiResolver = "callback"
    /\ conflict' = [oursContent |-> ours, theirsContent |-> theirs]
    /\ resolverPc' = "called"
    /\ UNCHANGED <<agentSpawned, resolution, resolverConfig, aiResolver,
                   fastResult, agentRun, resolverThrew>>

\* no callback was set: the aiResolver callback is null and the resolution
\* of the file fails
ResolveWithoutCallback(ours, theirs) ==
    /\ ResolverFrame
    /\ resolverPc = "idle"
    /\ aiResolver = "null"
    /\ conflict' = [oursContent |-> ours, theirsContent |-> theirs]
    /\ resolution' = Null
    /\ resolverPc' = "done"
    /\ UNCHANGED <<agentSpawned, resolverConfig, aiResolver, fastResult,
                   agentRun, resolverThrew>>

\* fastResult !== null: return it
FastPath ==
    /\ ResolverFrame
    /\ resolverPc = "called"
    /\ tryFastPathResolution(conflict) # Null
    /\ fastResult' = tryFastPathResolution(conflict)
    /\ resolution' = tryFastPathResolution(conflict)
    /\ resolverPc' = "done"
    /\ UNCHANGED <<conflict, agentSpawned, resolverConfig, aiResolver, agentRun,
                   resolverThrew>>

\* otherwise agentRegistry.getInstance(config.agent), which throws when the
\* agent is not available, and agent.execute(prompt, [], {cwd, timeout})
SpawnAgent(available) ==
    /\ ResolverFrame
    /\ resolverPc = "called"
    /\ tryFastPathResolution(conflict) = Null
    /\ fastResult' = Null
    /\ agentRun' = [NoAgentRun EXCEPT !.available = available]
    /\ IF available
       THEN /\ agentSpawned' = agentSpawned + 1
            /\ resolverPc' = "agent"
            /\ resolution' = resolution
       ELSE /\ agentSpawned' = agentSpawned
            /\ resolverPc' = "done"
            /\ resolution' = Null
    /\ UNCHANGED <<conflict, resolverConfig, aiResolver, resolverThrew>>

\* a callback that looks at the status only, not at the exit code
AgentReturnsIgnoringExitCode(throws, status, exitCode, stdout) ==
    /\ ResolverFrame
    /\ resolverPc = "agent"
    /\ agentRun' = [available |-> TRUE, throws |-> throws, status |-> status,
                    exitCode |-> exitCode, stdout |-> stdout]
    /\ resolution' = IF throws \/ status # "completed" THEN Null
                     ELSE extractResolvedContent(stdout)
    /\ resolverPc' = "done"
    /\ UNCHANGED <<conflict, agentSpawned, resolverConfig, aiResolver,
                   fastResult, resolverThrew>>

\* await handle.promise: it throws, or gives status, exit code and stdout;
\* not completed, a non-zero exit code or a throw give null, else
\* extractResolvedContent(stdout)
AgentReturns(throws, status, exitCode, stdout) ==
    /\ ResolverFrame
    /\ resolverPc = "agent"
    /\ agentRun' = [available |-> TRUE, throws |-> throws, status |-> status,
                    exitCode |-> exitCode, stdout |-> stdout]
    /\ resolution' = IF throws THEN Null
                     ELSE IF status # "completed" \/ exitCode # 0 THEN Null
                     ELSE extractResolvedContent(stdout)
    /\ resolverPc' = "done"
    /\ UNCHANGED <<conflict, agentSpawned, resolverConfig, aiResolver,
                   fastResult, resolverThrew>>

ResolverNext ==
    \/ \E top \in EnabledSettings, par \in EnabledSettings :
          RunWiresResolver(top, par)
    \/ \E ours \in CallContents("callback"), theirs \in CallContents("callback") :
          CallResolver(ours, theirs)
    \/ \E ours \in CallContents("null"), theirs \in CallContents("null") :
          ResolveWithoutCallback(ours, theirs)
    \/ FastPath
    \/ \E available \in BOOLEAN : SpawnAgent(available)
    \/ AgentReturns(TRUE, "none", 0, <<>>)
    \/ \E status \in AgentStatuses, exitCode \in {0, 1}, stdout \in AgentOutputs :
          AgentReturns(FALSE, status, exitCode, stdout)

-----------------------------------------------------------------------------
(***************************************************************************)
(* session-worktree.ts: tracker data and iteration logs of a worktree.     *)
(*                                                                         *)
(* A path is the sequence of its segments below the root; a file system is *)
(* a function from the paths of its files to their contents.               *)
(***************************************************************************)
\* path.normalize: ".." takes the segment before it away
RECURSIVE NormalizeFrom(_, _)
NormalizeFrom(segments, done) ==
    IF segments = <<>> THEN done
    ELSE IF Head(segments) = ".."
    THEN NormalizeFrom(Tail(segments),
                       IF done = <<>> THEN <<>>
                       ELSE SubSeq(done, 1, Len(done) - 1))
    ELSE NormalizeFrom(Tail(segments), Append(done, Head(segments)))

\* path.resolve(cwd, p): p is [absolute, segments]
pathResolve(cwd, p) ==
    IF p.absolute THEN NormalizeFrom(p.segments, <<>>)
    ELSE NormalizeFrom(cwd \o p.segments, <<>>)

\* path.join(dir, relative)
pathJoin(dir, relative) == NormalizeFrom(dir \o relative, <<>>)

RECURSIVE CommonPrefixLength(_, _)
CommonPrefixLength(a, b) ==
    IF a = <<>> \/ b = <<>> \/ Head(a) # Head(b) THEN 0
    ELSE 1 + CommonPrefixLength(Tail(a), Tail(b))

\* path.relative(from, to) of two absolute paths
pathRelative(from, to) ==
    LET k == CommonPrefixLength(from, to)
    IN  [i \in 1..(Len(from) - k) |-> ".."] \o SubSeq(to, k + 1, Len(to))

\* String.prototype.startsWith('..') of a segment
StartsWithDotDot(segment) == segment \in {"..", "..shared"}

\* rel === '' || (!rel.startsWith('..') && !path.isAbsolute(rel))
isPathInside(baseDir, candidate) ==
    LET rel == pathRelative(baseDir, candidate)
    IN  rel = <<>> \/ ~StartsWithDotDot(rel[1])

\* path.basename
basename(p) == IF p = <<>> THEN "" ELSE p[Len(p)]

\* path.dirname
dirname(p) == IF p = <<>> THEN <<>> ELSE SubSeq(p, 1, Len(p) - 1)

\* `${safeBase}-${sourceHash}${ext}`: the extension defaults to .json, and
\* what is not [a-zA-Z0-9._-] in the base becomes "-"
ExternalPrdName(file) ==
    CASE file = "prd.json" -> "prd-<sha1>.json"
      [] file = "my prd.json" -> "my-prd-<sha1>.json"
      [] file = "prd" -> "prd-<sha1>.json"
      [] OTHER -> "prd-<sha1>.json"

\* the copy of session-worktree.ts: the PRD keeps its path relative to cwd,
\* wherever that leads
resolveWorktreePrdPathRelative(cwd, worktreePath, prdPath) ==
    LET sourcePrd == pathResolve(cwd, prdPath)
    IN  [sourcePrd |-> sourcePrd,
         targetPrd |-> pathJoin(worktreePath, pathRelative(cwd, sourcePrd)),
         isExternal |-> FALSE]

resolveWorktreePrdPath(cwd, worktreePath, prdPath) ==
    LET sourcePrd == pathResolve(cwd, prdPath)
        relativePath == pathRelative(cwd, sourcePrd)
        safeRelative == IF relativePath # <<>> THEN relativePath
                        ELSE <<basename(sourcePrd)>>
    IN  IF isPathInside(worktreePath, sourcePrd)
        THEN [sourcePrd |-> sourcePrd, targetPrd |-> sourcePrd,
              isExternal |-> FALSE]
        ELSE IF isPathInside(cwd, sourcePrd)
        THEN [sourcePrd |-> sourcePrd,
              targetPrd |-> pathJoin(worktreePath, safeRelative),
              isExternal |-> FALSE]
        ELSE [sourcePrd |-> sourcePrd,
              targetPrd |-> pathJoin(worktreePath,
                                     <<".ralph-tui", "external-prd",
                                       ExternalPrdName(basename(sourcePrd))>>),
              isExternal |-> TRUE]

\* fs.copyFileSync(src, dest)
copyFileSync(fs, src, dest) ==
    [p \in DOMAIN fs \cup {dest} |-> IF p = dest THEN fs[src] ELSE fs[p]]

\* BEADS_EXCLUDE_PATTERNS: /\.db$/, /\.db-shm$/, /\.db-wal$/, /\.lock$/,
\* /\.tmp$/, /^last-touched$/, over the entry names of the model
isBeadsExcluded(entry) ==
    entry \in {"beads.db", "beads.db-shm", "beads.db-wal", "daemon.lock",
               "export.tmp", "last-touched"}

\* copyBeadsDir: every entry of <cwd>/.beads whose name is not excluded is
\* copied, a file with copyFileSync and a directory, with all it holds, with
\* cpSync(..., {recursive: true})
copyBeadsDir(fs, cwd, worktreePath) ==
    LET sourceDir == pathJoin(cwd, <<".beads">>)
        n == Len(sourceDir)
        copied == {p \in DOMAIN fs :
                      /\ Len(p) > n
                      /\ SubSeq(p, 1, n) = sourceDir
                      /\ ~isBeadsExcluded(p[n + 1])}
        target(p) == pathJoin(worktreePath,
                              <<".beads">> \o SubSeq(p, n + 1, Len(p)))
    IN  [q \in DOMAIN fs \cup {target(p) : p \in copied} |->
            IF \E p \in copied : target(p) = q
            THEN fs[CHOOSE p \in copied : target(p) = q]
            ELSE fs[q]]

NoSync == [command |-> "none", ok |-> FALSE]

\* syncBeadsTracker: execFileSync(command, ['sync', '--flush-only'], {cwd});
\* when the command works the JSONL export of a database is up to date
syncBeadsTracker(fs, cwd, command, works) ==
    LET db == pathJoin(cwd, <<".beads", "beads.db">>)
        jsonl == pathJoin(cwd, <<".beads", "issues.jsonl">>)
    IN  [fs |-> IF works /\ db \in DOMAIN fs
                THEN [p \in DOMAIN fs \cup {jsonl} |->
                        IF p = jsonl THEN "export of the database" ELSE fs[p]]
                ELSE fs,
         sync |-> [command |-> command, ok |-> works]]

NoPrdPath == [absolute |-> FALSE, segments |-> <<>>]
DefaultPrdPath == [absolute |-> FALSE, segments |-> <<"prd.json">>]
NoCopyReturn == [jsonPrdPath |-> <<>>, jsonPrdIsExternal |-> FALSE]

\* copyTrackerData: the file system it leaves, what it returns and the sync
\* command it ran
copyTrackerData(fs, cwd, worktreePath, trackerPlugin, prdPath, syncWorks) ==
    IF trackerPlugin \in {"beads-rust", "beads", "beads-bv"}
    THEN LET s == syncBeadsTracker(fs, cwd,
                                   IF trackerPlugin = "beads-rust" THEN "br" ELSE "bd",
                                   syncWorks)
         IN  [fs |-> copyBeadsDir(s.fs, cwd, worktreePath),
              return |-> NoCopyReturn, sync |-> s.sync]
    ELSE IF trackerPlugin = "json"
    THEN LET prdFile == IF prdPath = NoPrdPath THEN DefaultPrdPath ELSE prdPath
             r == resolveWorktreePrdPath(cwd, worktreePath, prdFile)
         IN  [fs |-> IF r.sourcePrd \in DOMAIN fs /\ r.sourcePrd # r.targetPrd
                     THEN copyFileSync(fs, r.sourcePrd, r.targetPrd)
                     ELSE fs,
              return |-> [jsonPrdPath |-> r.targetPrd,
                          jsonPrdIsExternal |-> r.isExternal],
              sync |-> NoSync]
    ELSE [fs |-> fs, return |-> NoCopyReturn, sync |-> NoSync]

ProjectDirs == {<<"home", "proj">>, <<"proj">>}
WorktreePaths == {<<"home", ".ralph-worktrees", "proj", "name">>, <<"proj", "wt">>}
PrdPaths ==
    {NoPrdPath,
     [absolute |-> FALSE, segments |-> <<"docs", "prd.json">>],
     [absolute |-> FALSE, segments |-> <<"..shared", "prd.json">>],
     [absolute |-> FALSE, segments |-> <<"..", "ext", "my prd.json">>],
     [absolute |-> TRUE, segments |-> <<"ext", "prd">>],
     [absolute |-> TRUE,
      segments |-> <<"home", ".ralph-worktrees", "proj", "name", "prd.json">>],
     [absolute |-> TRUE,
      segments |-> <<"proj", "wt", ".ralph-tui", "external-prd",
                     "prd-<sha1>.json">>]}
TrackerPlugins == {"json", "beads-rust", "none"}

EmptyFs == [p \in {} |-> ""]
NoCopyCall ==
    [cwd |-> <<>>, worktreePath |-> <<>>, trackerPlugin |-> "none",
     prdPath |-> NoPrdPath]

FilesInit ==
    /\ fsFiles = EmptyFs
    /\ fsBefore = EmptyFs
    /\ copyCall = NoCopyCall
    /\ copyReturn = NoCopyReturn
    /\ fsOnce = EmptyFs
    /\ filesPc = "idle"

\* createSessionWorktree is about to copy the tracker data: the project holds
\* a PRD or not, a beads directory or not, and the worktree may hold an
\* older copy
WorktreeAdded(cwd, worktreePath, trackerPlugin, prdPath, hasPrd, hasBeads, hasOld) ==
    /\ FilesFrame
    /\ filesPc = "idle"
    /\ LET prdFile == IF prdPath = NoPrdPath THEN DefaultPrdPath ELSE prdPath
           sourcePrd == pathResolve(cwd, prdFile)
           oldCopy == resolveWorktreePrdPath(cwd, worktreePath, prdFile).targetPrd
           paths == (IF hasPrd THEN {sourcePrd} ELSE {})
                    \cup (IF hasOld THEN {oldCopy} ELSE {})
                    \cup (IF hasBeads
                          THEN {pathJoin(cwd, <<".beads", "issues.jsonl">>),
                                pathJoin(cwd, <<".beads", "beads.db">>)}
                          ELSE {})
       IN  fsFiles' = [p \in paths |->
                         IF p = sourcePrd /\ hasPrd THEN "prd of the project"
                         ELSE IF p = oldCopy THEN "older copy"
                         ELSE "beads data"]
    /\ fsBefore' = fsFiles'
    /\ copyCall' = [cwd |-> cwd, worktreePath |-> worktreePath,
                    trackerPlugin |-> trackerPlugin, prdPath |-> prdPath]
    /\ copyReturn' = NoCopyReturn
    /\ filesPc' = "copy"
    /\ UNCHANGED fsOnce

CopyTrackerData ==
    /\ FilesFrame
    /\ filesPc = "copy"
    /\ \E syncWorks \in BOOLEAN :
          LET r == copyTrackerData(fsFiles, copyCall.cwd, copyCall.worktreePath,
                                   copyCall.trackerPlugin, copyCall.prdPath,
                                   syncWorks)
          IN  /\ fsFiles' = r.fs
              /\ copyReturn' = r.return
    /\ filesPc' = "copied"
    /\ UNCHANGED <<fsBefore, copyCall, fsOnce>>

\* the session is over; another one may be set up
FilesReset ==
    /\ FilesFrame
    /\ filesPc \in {"copied", "preserved", "preserved again"}
    /\ fsFiles' = EmptyFs
    /\ fsBefore' = EmptyFs
    /\ copyCall' = NoCopyCall
    /\ copyReturn' = NoCopyReturn
    /\ fsOnce' = EmptyFs
    /\ filesPc' = "idle"

\* file.endsWith('.log')
IsLogFile(file) ==
    file \in {"iteration-001.log", "iteration-002.log", "iteration-003.log"}

IterationsDirEntries == {"iteration-001.log", "iteration-002.log", "notes.txt"}

\* path.join(dir, '.ralph-tui', 'iterations')
IterationsDir(dir) == pathJoin(dir, <<".ralph-tui", "iterations">>)

\* a copy loop that does not look at the destination
preserveIterationLogsOverwriting(fs, mainCwd, worktreePath) ==
    LET logs == {p \in DOMAIN fs :
                    /\ dirname(p) = IterationsDir(worktreePath)
                    /\ IsLogFile(basename(p))}
        dest(p) == pathJoin(IterationsDir(mainCwd), <<basename(p)>>)
    IN  [q \in DOMAIN fs \cup {dest(p) : p \in logs} |->
            IF \E p \in logs : dest(p) = q
            THEN fs[CHOOSE p \in logs : dest(p) = q]
            ELSE fs[q]]

\* preserveIterationLogs: every *.log of the worktree's iterations directory
\* whose name the main directory does not hold yet is copied there
preserveIterationLogs(fs, mainCwd, worktreePath) ==
    LET logs == {p \in DOMAIN fs :
                    /\ dirname(p) = IterationsDir(worktreePath)
                    /\ IsLogFile(basename(p))}
        dest(p) == pathJoin(IterationsDir(mainCwd), <<basename(p)>>)
        copied == {p \in logs : dest(p) \notin DOMAIN fs}
    IN  [q \in DOMAIN fs \cup {dest(p) : p \in copied} |->
            IF q \in DOMAIN fs THEN fs[q]
            ELSE fs[CHOOSE p \in copied : dest(p) = q]]

\* a session in the worktree has written its iteration logs; the main
\* directory holds what earlier runs left there
IterationsLogged(cwd, worktreePath, inWorktree, inMain) ==
    /\ FilesFrame
    /\ filesPc = "idle"
    /\ cwd # worktreePath
    /\ LET ofWorktree == {pathJoin(IterationsDir(worktreePath), <<f>>) : f \in inWorktree}
           ofMain == {pathJoin(IterationsDir(cwd), <<f>>) : f \in inMain}
       IN  fsFiles' = [p \in ofWorktree \cup ofMain |->
                         IF p \in ofMain THEN "kept in the main directory"
                         ELSE "written in the worktree"]
    /\ fsBefore' = fsFiles'
    /\ copyCall' = [NoCopyCall EXCEPT !.cwd = cwd, !.worktreePath = worktreePath]
    /\ filesPc' = "preserve"
    /\ UNCHANGED <<copyReturn, fsOnce>>

\* preserveIterationLogs(mainCwd, worktreePath), called once and once more
PreserveIterationLogs ==
    /\ FilesFrame
    /\ filesPc \in {"preserve", "preserved"}
    /\ fsFiles' = preserveIterationLogs(fsFiles, copyCall.cwd, copyCall.worktreePath)
    /\ fsOnce' = IF filesPc = "preserve" THEN fsFiles' ELSE fsOnce
    /\ filesPc' = IF filesPc = "preserve" THEN "preserved" ELSE "preserved again"
    /\ UNCHANGED <<fsBefore, copyCall, copyReturn>>

FilesNext ==
    \/ \E cwd \in ProjectDirs, worktreePath \in WorktreePaths,
          trackerPlugin \in TrackerPlugins, prdPath \in PrdPaths,
          hasPrd \in BOOLEAN, hasBeads \in BOOLEAN, hasOld \in BOOLEAN :
          WorktreeAdded(cwd, worktreePath, trackerPlugin, prdPath,
                        hasPrd, hasBeads, hasOld)
    \/ CopyTrackerData
    \/ FilesReset
    \/ \E cwd \in ProjectDirs, worktreePath \in WorktreePaths,
          inWorktree \in SUBSET IterationsDirEntries,
          inMain \in SUBSET IterationsDirEntries :
          IterationsLogged(cwd, worktreePath, inWorktree, inMain)
    \/ PreserveIterationLogs
-----------------------------------------------------------------------------
(***************************************************************************)
(* session-worktree.ts: the session worktree and its branch                *)
(*                                                                         *)
(* repo is what git and the file system hold:                              *)
(*   wtDir        the worktree directory exists                            *)
(*   wtReg        git lists the worktree, with the session branch checked  *)
(*                out in it                                                *)
(*   branch       the branch ralph-session/<name> exists                   *)
(*   head         what HEAD of the main checkout names                     *)
(*   ahead        the session branch holds commits the main checkout lacks *)
(*   diverged     the main checkout holds commits the session branch lacks *)
(*   conflicting  those commits touch what the session touched             *)
(*   merging      a merge is in progress in the main checkout              *)
(*   mergedInto   the branches the session branch was merged into          *)
(*   files        the iteration logs on disk, in the main directory and in  *)
(*                the worktree, by path                                     *)
(*   written      iteration logs written so far                             *)
(***************************************************************************)
SessionBranch == "ralph-session/name"
MainBranches == {"main", "feature"}

\* cwd of the run command and the worktree path derived from it
MainCwd == <<"home", "proj">>
SessionWorktreePath == <<"home", ".ralph-worktrees", "proj", "name">>

\* the log file of the k-th iteration
IterationLogNames ==
    <<"iteration-001.log", "iteration-002.log", "iteration-003.log">>
IterationLogPath(dir, k) == pathJoin(IterationsDir(dir), <<IterationLogNames[k]>>)

NoWorktree ==
    [wtDir |-> FALSE, wtReg |-> FALSE, branch |-> FALSE, head |-> "main",
     ahead |-> FALSE, diverged |-> FALSE, conflicting |-> FALSE,
     merging |-> FALSE, mergedInto |-> {}, files |-> EmptyFs, written |-> 0]

\* the file system without the worktree directory
WithoutWorktreeDir(fs) ==
    [p \in {q \in DOMAIN fs : ~isPathInside(SessionWorktreePath, q)} |-> fs[p]]

\* git worktree remove --force <path>: fails when <path> is no worktree
GitWorktreeRemove(r) ==
    [ok |-> r.wtReg /\ r.wtDir,
     repo |-> IF r.wtReg /\ r.wtDir
              THEN [r EXCEPT !.wtDir = FALSE, !.wtReg = FALSE,
                             !.files = WithoutWorktreeDir(@)]
              ELSE r]

\* fs.rmSync(path, {recursive, force})
RmSync(r) == [r EXCEPT !.wtDir = FALSE, !.files = WithoutWorktreeDir(@)]

\* git worktree prune: forgets the worktrees whose directory is gone
GitWorktreePrune(r) == IF r.wtDir THEN r ELSE [r EXCEPT !.wtReg = FALSE]

\* git branch -D <branch>: fails when the branch does not exist or is checked
\* out in a worktree
GitBranchDelete(r) ==
    LET ok == r.branch /\ ~r.wtReg /\ r.head # SessionBranch
    IN  [ok |-> ok,
         repo |-> IF ok THEN [r EXCEPT !.branch = FALSE, !.ahead = FALSE] ELSE r]

\* try { worktree remove --force } catch { rmSync; prune }
ForceRemovePath(r) ==
    IF GitWorktreeRemove(r).ok THEN GitWorktreeRemove(r).repo
    ELSE GitWorktreePrune(RmSync(r))

\* the cleanup that forgets to delete the branch
removeSessionWorktreeKeepingBranch(r) == ForceRemovePath(r)

removeSessionWorktree(r) == GitBranchDelete(ForceRemovePath(r)).repo

\* git worktree add -b <branch> <path> HEAD: the branch starts at HEAD
createSessionWorktree(r) ==
    LET cleared == IF r.wtDir THEN ForceRemovePath(r) ELSE r
        deleted == GitBranchDelete(cleared).repo
        ok == ~deleted.branch /\ ~deleted.wtDir
    IN  [ok |-> ok,
         mode |-> "created",
         repo |-> IF ok
                  THEN [deleted EXCEPT !.wtDir = TRUE, !.wtReg = TRUE,
                                       !.branch = TRUE, !.ahead = FALSE,
                                       !.diverged = FALSE, !.conflicting = FALSE,
                                       !.mergedInto = {}]
                  ELSE deleted]

\* a preparation that creates a fresh worktree and branch, resume or not
prepareSessionWorktreeAlwaysCreating(r, resume) == createSessionWorktree(r)

prepareSessionWorktree(r, resume) ==
    IF resume /\ r.wtReg
    THEN [ok |-> TRUE, mode |-> "reused", repo |-> r]
    ELSE IF resume /\ r.branch
    THEN LET cleared == IF r.wtDir THEN ForceRemovePath(r) ELSE r
         IN  [ok |-> TRUE, mode |-> "attached",
              repo |-> [cleared EXCEPT !.wtDir = TRUE, !.wtReg = TRUE]]
    ELSE createSessionWorktree(r)

\* git merge --ff-only <branch>: fails when HEAD has commits the branch
\* lacks, unless the branch brings nothing new
GitMergeFfOnly(r) ==
    [ok |-> ~r.diverged \/ ~r.ahead,
     repo |-> IF ~r.diverged \/ ~r.ahead
              THEN [r EXCEPT !.mergedInto = @ \cup {r.head}, !.ahead = FALSE]
              ELSE r]

\* git merge --no-edit <branch>: a conflict leaves the merge in progress
GitMergeNoEdit(r) ==
    [ok |-> ~r.conflicting \/ ~r.ahead,
     repo |-> IF ~r.conflicting \/ ~r.ahead
              THEN [r EXCEPT !.mergedInto = @ \cup {r.head}, !.ahead = FALSE,
                             !.diverged = FALSE]
              ELSE [r EXCEPT !.merging = TRUE]]

\* git merge --abort
GitMergeAbort(r) == [r EXCEPT !.merging = FALSE]

Outcomes == {"completed", "interrupted", "aborted", "max_iterations"}

WorktreeInit ==
    /\ repo = NoWorktree
    /\ wtPc = "start"
    /\ wtMode = "none"
    /\ outcome = "none"
    /\ originalBranch = "none"
    /\ mergeResult = "none"
    /\ startBranch = "none"
    /\ gitLog = <<>>
    /\ wtResume = FALSE

\* run --worktree [--resume]: prepareSessionWorktree, then the engine runs in
\* the worktree
PrepareWorktree(resume) ==
    /\ WorktreeFrame
    /\ wtPc = "start"
    /\ LET p == prepareSessionWorktree(repo, resume)
       IN  /\ repo' = p.repo
           /\ wtMode' = IF p.ok THEN p.mode ELSE "none"
           /\ wtPc' = IF p.ok THEN "running" ELSE "start"
    /\ outcome' = "none"
    /\ mergeResult' = "none"
    /\ originalBranch' = "none"
    /\ startBranch' = repo.head
    /\ wtResume' = resume
    /\ gitLog' = <<>>

\* an iteration in the worktree writes its log and commits
AgentCommits ==
    /\ WorktreeFrame
    /\ wtPc = "running"
    /\ repo.written < MaxLogs
    /\ repo' = [repo EXCEPT
                  !.ahead = TRUE,
                  !.written = @ + 1,
                  !.files = [p \in DOMAIN @ \cup
                                   {IterationLogPath(SessionWorktreePath,
                                                     repo.written + 1)} |->
                               IF p \in DOMAIN @ THEN @[p]
                               ELSE "log of the iteration"]]
    /\ UNCHANGED <<wtPc, wtMode, outcome, originalBranch, mergeResult,
                   startBranch, wtResume, gitLog>>

\* meanwhile the branch of the main checkout gets a commit of its own
MainBranchMoves(conflicts) ==
    /\ WorktreeFrame
    /\ wtPc = "running"
    /\ repo' = [repo EXCEPT !.diverged = TRUE,
                            !.conflicting = @ \/ conflicts]
    /\ UNCHANGED <<wtPc, wtMode, outcome, originalBranch, mergeResult,
                   startBranch, wtResume, gitLog>>

\* meanwhile the user checks another branch out in the main checkout
UserChecksOut(b) ==
    /\ WorktreeFrame
    /\ wtPc = "running"
    /\ b # repo.head
    /\ repo' = [repo EXCEPT !.head = b]
    /\ UNCHANGED <<wtPc, wtMode, outcome, originalBranch, mergeResult,
                   startBranch, wtResume, gitLog>>

\* the run loop ends
SessionEnds(o) ==
    /\ WorktreeFrame
    /\ wtPc = "running"
    /\ outcome' = o
    /\ wtPc' = "ended"
    /\ UNCHANGED <<repo, wtMode, originalBranch, mergeResult, startBranch, wtResume,
                   gitLog>>

\* the process is killed while the session runs (kill -9, a second SIGINT):
\* the caller's end-of-session code does not run
WorktreeProcessKilled ==
    /\ WorktreeFrame
    /\ wtPc = "running"
    /\ wtPc' = "start"
    /\ UNCHANGED <<repo, wtMode, outcome, originalBranch, mergeResult,
                   startBranch, wtResume, gitLog>>

\* a caller that merges back whatever the outcome
CallerDecidesAlwaysMerging ==
    /\ WorktreeFrame
    /\ wtPc = "ended"
    /\ repo' = [repo EXCEPT
                  !.files = preserveIterationLogs(@, MainCwd, SessionWorktreePath)]
    /\ wtPc' = "merge"
    /\ UNCHANGED <<wtMode, outcome, originalBranch, mergeResult, startBranch,
                   wtResume, gitLog>>

\* the caller copies the iteration logs back.  Then, all tasks complete: it
\* merges back; anything else: it prints the preserved-worktree message and
\* leaves worktree and branch alone
CallerDecides ==
    /\ WorktreeFrame
    /\ wtPc = "ended"
    /\ repo' = [repo EXCEPT
                  !.files = preserveIterationLogs(@, MainCwd, SessionWorktreePath)]
    /\ wtPc' = IF outcome = "completed" THEN "merge" ELSE "preserved"
    /\ UNCHANGED <<wtMode, outcome, originalBranch, mergeResult, startBranch, wtResume,
                   gitLog>>

\* mergeSessionWorktree: git rev-parse --abbrev-ref HEAD, and the guard
MergeBegin ==
    /\ WorktreeFrame
    /\ wtPc = "merge"
    /\ originalBranch' = repo.head
    /\ gitLog' = <<[command |-> "rev-parse --abbrev-ref HEAD", ok |-> TRUE]>>
    /\ IF repo.head = SessionBranch
       THEN mergeResult' = "failure" /\ wtPc' = "done"
       ELSE mergeResult' = mergeResult /\ wtPc' = "merge_ff"
    /\ UNCHANGED <<repo, wtMode, outcome, startBranch, wtResume>>

\* a merge that goes on to the merge commit whatever the fast-forward did
MergeFastForwardThenCommit ==
    /\ WorktreeFrame
    /\ wtPc = "merge_ff"
    /\ repo' = GitMergeFfOnly(repo).repo
    /\ gitLog' = Append(gitLog, [command |-> "merge --ff-only",
                                 ok |-> GitMergeFfOnly(repo).ok])
    /\ wtPc' = "merge_commit"
    /\ UNCHANGED <<wtMode, outcome, originalBranch, mergeResult, startBranch, wtResume>>

MergeFastForward ==
    /\ WorktreeFrame
    /\ wtPc = "merge_ff"
    /\ repo' = GitMergeFfOnly(repo).repo
    /\ gitLog' = Append(gitLog, [command |-> "merge --ff-only",
                                 ok |-> GitMergeFfOnly(repo).ok])
    /\ wtPc' = IF GitMergeFfOnly(repo).ok THEN "merge_cleanup" ELSE "merge_commit"
    /\ UNCHANGED <<wtMode, outcome, originalBranch, mergeResult, startBranch, wtResume>>

MergeCommit ==
    /\ WorktreeFrame
    /\ wtPc = "merge_commit"
    /\ repo' = GitMergeNoEdit(repo).repo
    /\ gitLog' = Append(gitLog, [command |-> "merge --no-edit",
                                 ok |-> GitMergeNoEdit(repo).ok])
    /\ wtPc' = IF GitMergeNoEdit(repo).ok THEN "merge_cleanup" ELSE "merge_abort"
    /\ UNCHANGED <<wtMode, outcome, originalBranch, mergeResult, startBranch, wtResume>>

MergeAbort ==
    /\ WorktreeFrame
    /\ wtPc = "merge_abort"
    /\ repo' = GitMergeAbort(repo)
    /\ gitLog' = Append(gitLog, [command |-> "merge --abort", ok |-> TRUE])
    /\ mergeResult' = "failure"
    /\ wtPc' = "done"
    /\ UNCHANGED <<wtMode, outcome, originalBranch, startBranch, wtResume>>

\* the merge succeeded: removeSessionWorktree, then {success: true}
MergeCleanup ==
    /\ WorktreeFrame
    /\ wtPc = "merge_cleanup"
    /\ repo' = removeSessionWorktree(repo)
    /\ mergeResult' = "success"
    /\ wtPc' = "done"
    /\ UNCHANGED <<wtMode, outcome, originalBranch, startBranch, wtResume, gitLog>>

\* the process exits; the user may run again
RunAgain ==
    /\ WorktreeFrame
    /\ wtPc \in {"preserved", "done"}
    /\ wtPc' = "start"
    /\ UNCHANGED <<repo, wtMode, outcome, originalBranch, mergeResult,
                   startBranch, wtResume, gitLog>>

\* between runs the user follows the printed hint:
\* git worktree remove <path>, which keeps the branch
UserRemovesWorktree ==
    /\ WorktreeFrame
    /\ wtPc = "start"
    /\ repo.wtReg
    /\ repo' = GitWorktreeRemove(repo).repo
    /\ UNCHANGED <<wtPc, wtMode, outcome, originalBranch, mergeResult,
                   startBranch, wtResume, gitLog>>

WorktreeNext ==
    \/ \E resume \in BOOLEAN : PrepareWorktree(resume)
    \/ AgentCommits
    \/ \E c \in BOOLEAN : MainBranchMoves(c)
    \/ \E b \in MainBranches : UserChecksOut(b)
    \/ \E o \in Outcomes : SessionEnds(o)
    \/ WorktreeProcessKilled
    \/ CallerDecides
    \/ MergeBegin
    \/ MergeFastForward
    \/ MergeCommit
    \/ MergeAbort
    \/ MergeCleanup
    \/ RunAgain
    \/ UserRemovesWorktree

-----------------------------------------------------------------------------
(***************************************************************************)
(* Scheduler, iteration engine and session manager.                        *)
(*                                                                         *)
(* One ralph-tui process (pid 1) runs the engine in the working directory; *)
(* a second process (pid 2) stands for any other instance started there.   *)
(* The tracker holds four tasks of the test fixture: TEST-004 depends on   *)
(* TEST-001 and TEST-002, TEST-005 on TEST-004.                            *)
(***************************************************************************)
Tasks == {"TEST-001", "TEST-002", "TEST-004", "TEST-005"}

Dependencies(t) ==
    CASE t = "TEST-004" -> {"TEST-001", "TEST-002"}
      [] t = "TEST-005" -> {"TEST-004"}
      [] OTHER -> {}

StopReasons ==
    {"no_tasks", "completed", "max_iterations", "user_quit", "user_pause",
     "fatal_error", "external_signal"}

\* the lifecycle status a stop reason leaves the session in
StatusFor(reason) ==
    CASE reason \in {"completed", "no_tasks"} -> "completed"
      [] reason \in {"user_pause", "max_iterations"} -> "paused"
      [] reason \in {"user_quit", "external_signal"} -> "interrupted"
      [] reason = "fatal_error" -> "failed"

\* eligibility that looks at the task's own status only
IsEligibleIgnoringDependencies(view, t) ==
    view[t] \in {"open", "in_progress"}

\* a task is eligible iff it is open or in progress and every dependency is
\* closed, in the listing of this scheduling pass
IsEligible(view, t) ==
    /\ view[t] \in {"open", "in_progress"}
    /\ \A d \in Dependencies(t) : view[d] = "closed"

tasksTotal == Cardinality(Tasks)
tasksClosed == Cardinality({t \in Tasks : taskStatus[t] = "closed"})

\* completion detection that looks at the sentinel only
IsCompleteSentinelOnly(sentinel, exitCode) == sentinel

\* success iff the output holds <promise>COMPLETE</promise> and the exit code
\* is zero
IsComplete(sentinel, exitCode) == sentinel /\ exitCode = 0

\* the lock names a live process
LockIsLive ==
    \/ lock = 1 /\ enginePc # "off"
    \/ lock = 2 /\ rival = "running"

\* the start check that never finds the lock held
StartRefusedNever(force) == FALSE

\* refuse to start if the lock exists and its pid is alive, unless --force
StartRefused(force) == LockIsLive /\ ~force

RunningSessions ==
    (IF enginePc # "off" THEN {1} ELSE {})
        \cup (IF rival = "running" THEN {2} ELSE {})

NoIteration ==
    [sentinel |-> FALSE, exitCode |-> 0, success |-> FALSE,
     statusAfter |-> "none"]

\* run.tsx: allComplete, as the investigation of issue 247 quotes it
allComplete ==
    tasksClosed >= tasksTotal \/ engineStatus = "idle"

EngineInit ==
    /\ taskStatus = [t \in Tasks |-> "open"]
    /\ listing = [t \in Tasks |-> "open"]
    /\ current = "none"
    /\ enginePc = "off"
    /\ engineStatus = "idle"
    /\ iteration = 0
    /\ budget = 0
    /\ lastIter = NoIteration
    /\ session = [id |-> 0, status |-> "none", stopReason |-> "none"]
    /\ sessionFile = FALSE
    /\ exitDecision = "none"
    /\ lock = 0
    /\ rival = "off"
    /\ everForced = FALSE
    /\ lastStart = [pid |-> 0, result |-> "none"]

\* run / resume: take the lock, create or reopen the session, start the engine
Start(force, resume, n) ==
    /\ EngineFrame
    /\ enginePc = "off"
    /\ resume => sessionFile
    /\ everForced' = (everForced \/ force)
    /\ IF StartRefused(force)
       THEN /\ lastStart' = [pid |-> 1, result |-> "LockConflict"]
            /\ UNCHANGED <<trackerVars, loopVars, sessionVars, lock, rival>>
       ELSE /\ lastStart' = [pid |-> 1, result |-> "started"]
            /\ lock' = 1
            /\ session' = [id |-> IF resume THEN session.id ELSE 1 - session.id,
                           status |-> "running",
                           stopReason |-> "none"]
            /\ sessionFile' = TRUE
            /\ exitDecision' = "none"
            /\ enginePc' = "select"
            /\ engineStatus' = "running"
            /\ iteration' = 0
            /\ budget' = n
            /\ current' = "none"
            /\ UNCHANGED <<taskStatus, listing, lastIter, rival>>

\* the run loop exits: the session manager records the stop reason and
\* persists the state; runLoop's finally block sets state.status = 'idle'
LoopExit(reason) ==
    /\ session' = [session EXCEPT !.status = StatusFor(reason),
                                  !.stopReason = reason]
    /\ enginePc' = "exited"
    /\ engineStatus' = "idle"
    /\ UNCHANGED <<taskStatus, current, iteration, budget, lastIter,
                   sessionFile, exitDecision, lockVars>>

\* a scheduling pass: list the tracker, stop when nothing is left to do or the
\* budget is spent, else admit one eligible task and mark it in progress
SelectTask ==
    /\ EngineFrame
    /\ enginePc = "select"
    /\ listing' = taskStatus
    /\ IF \A t \in Tasks : taskStatus[t] = "closed"
       THEN LoopExit("completed")
       ELSE IF iteration >= budget
       THEN LoopExit("max_iterations")
       ELSE IF \A t \in Tasks : ~IsEligible(taskStatus, t)
       THEN LoopExit("no_tasks")
       ELSE \E t \in Tasks :
               /\ IsEligible(taskStatus, t)
               /\ current' = t
               /\ taskStatus' = [taskStatus EXCEPT ![t] = "in_progress"]
               /\ enginePc' = "agent"
               /\ UNCHANGED <<engineStatus, iteration, budget, lastIter,
                              sessionVars, lockVars>>

\* the agent ran: detect completion, close the task on success, log
AgentFinishes(sentinel, exitCode) ==
    /\ EngineFrame
    /\ enginePc = "agent"
    /\ LET success == IsComplete(sentinel, exitCode)
           after == IF success THEN "closed" ELSE taskStatus[current]
       IN  /\ taskStatus' = [taskStatus EXCEPT ![current] = after]
           /\ lastIter' = [sentinel |-> sentinel,
                           exitCode |-> exitCode, success |-> success,
                           statusAfter |-> after]
    /\ iteration' = iteration + 1
    /\ current' = "none"
    /\ enginePc' = "select"
    /\ UNCHANGED <<listing, engineStatus, budget, sessionVars, lockVars>>

\* a shutdown that can be entered again while it is already under way
StopEventReentrant(reason) ==
    /\ EngineFrame
    /\ enginePc # "off"
    /\ LoopExit(reason)
    /\ listing' = listing

\* Q, a single SIGINT, SIGTERM, an unrecoverable error: the loop stops
StopEvent(reason) ==
    /\ EngineFrame
    /\ enginePc \in {"select", "agent"}
    /\ LoopExit(reason)
    /\ listing' = listing

\* the caller of the engine: delete session.json when allComplete, release
\* the lock, exit
CallerCleanup ==
    /\ EngineFrame
    /\ enginePc = "exited"
    /\ sessionFile' = (sessionFile /\ ~allComplete)
    /\ exitDecision' = IF allComplete THEN "deleted" ELSE "kept"
    /\ lock' = IF lock = 1 THEN 0 ELSE lock
    /\ enginePc' = "off"
    /\ UNCHANGED <<trackerVars, engineStatus, iteration, budget, lastIter,
                   session, rival, everForced, lastStart>>

\* the process dies (kill -9, a second SIGINT during shutdown): nothing is
\* cleaned up
ProcessKilled ==
    /\ EngineFrame
    /\ enginePc # "off"
    /\ enginePc' = "off"
    /\ UNCHANGED <<trackerVars, engineStatus, iteration, budget, lastIter,
                   sessionVars, lockVars>>

\* another instance is started in the same working directory
RivalStarts(force) ==
    /\ EngineFrame
    /\ rival = "off"
    /\ everForced' = (everForced \/ force)
    /\ IF StartRefused(force)
       THEN /\ lastStart' = [pid |-> 2, result |-> "LockConflict"]
            /\ UNCHANGED <<lock, rival>>
       ELSE /\ lastStart' = [pid |-> 2, result |-> "started"]
            /\ lock' = 2
            /\ rival' = "running"
    /\ UNCHANGED <<trackerVars, loopVars, sessionVars>>

\* the other instance ends: cleanly (it releases its lock) or not
RivalEnds(clean) ==
    /\ EngineFrame
    /\ rival = "running"
    /\ rival' = "off"
    /\ lock' = IF clean /\ lock = 2 THEN 0 ELSE lock
    /\ UNCHANGED <<trackerVars, loopVars, sessionVars, everForced, lastStart>>

Next ==
    \/ \E force \in BOOLEAN, resume \in BOOLEAN, n \in 1..MaxBudget :
          Start(force, resume, n)
    \/ SelectTask
    \/ \E sentinel \in BOOLEAN, exitCode \in {0, 1} :
          AgentFinishes(sentinel, exitCode)
    \/ \E reason \in {"user_quit", "user_pause", "external_signal", "fatal_error"} :
          StopEvent(reason)
    \/ CallerCleanup
    \/ ProcessKilled
    \/ \E force \in BOOLEAN : RivalStarts(force)
    \/ \E clean \in BOOLEAN : RivalEnds(clean)

-----------------------------------------------------------------------------
(***************************************************************************)
(* Agent adapter: the model of a task and the agent's command line.        *)
(*                                                                         *)
(* "none" stands for undefined throughout.                                 *)
(***************************************************************************)
\* models the active agent plugin accepts
ValidModels == {"opus", "haiku", "sonnet"}

\* agent.validateModel: an error message, or undefined for a valid model
validateModel(model) ==
    IF model \in ValidModels THEN "none" ELSE "unknown model"

\* per-task model override > CLI --model > agent default; an invalid task
\* model is warned about and skipped
resolveModelForTask(task, config) ==
    IF task # "none" /\ validateModel(task) = "none"
    THEN [model |-> task, source |-> "task"]
    ELSE IF config # "none"
    THEN [model |-> config, source |-> "cli"]
    ELSE [model |-> "none", source |-> "agent-default"]

\* the warnings resolveModelForTask logs on the way
resolveModelWarnings(task, config) ==
    IF task # "none" /\ validateModel(task) # "none" THEN {task} ELSE {}

\* the adapter's own arguments (the plugin of the flag ordering tests)
buildArgs(model) ==
    IF model # "none" THEN <<"--model", model>> ELSE <<>>

\* base.ts:522 before the fix: the adapter's arguments came last
executeArgsFlagsFirst(default, args, engineFlags) ==
    default \o engineFlags \o args

\* allArgs = [...defaultFlags, ...buildArgs(), ...(options.flags ?? [])]
executeArgs(default, args, engineFlags) ==
    default \o args \o engineFlags

\* the model a last-flag-wins command line selects
RECURSIVE EffectiveModel(_)
EffectiveModel(args) ==
    IF Len(args) < 2 THEN "none"
    ELSE IF args[Len(args) - 1] = "--model" THEN args[Len(args)]
    ELSE EffectiveModel(SubSeq(args, 1, Len(args) - 1))

DefaultFlagSets == {<<>>, <<"--verbose">>, <<"--model", "default-model">>}
AgentModels == {"none", "sonnet"}
CliModels == {"none", "haiku", "bogus"}
TaskModels == {"none", "opus", "bogus"}
\* flags the engine injects besides --model
OtherEngineFlags == {<<>>, <<"--extra-flag">>}

AgentInit ==
    /\ defaultFlags = <<>>
    /\ agentModel = "none"
    /\ cliModel = "none"
    /\ taskModel = "none"
    /\ resolved = [model |-> "none", source |-> "none"]
    /\ modelWarnings = {}
    /\ flags = <<>>
    /\ allArgs = <<>>
    /\ agentPc = "init"

\* agent.initialize({defaultFlags}), the agent's model, the --model of the run
InitializeAgent(default, model, cli) ==
    /\ AgentFrame
    /\ agentPc = "init"
    /\ defaultFlags' = default
    /\ agentModel' = model
    /\ cliModel' = cli
    /\ agentPc' = "ready"
    /\ UNCHANGED <<taskModel, resolved, modelWarnings, flags, allArgs>>

\* runIteration: the next task, and the flags the engine has collected so far
TaskStarts(model, others) ==
    /\ AgentFrame
    /\ agentPc = "ready"
    /\ taskModel' = model
    /\ flags' = others
    /\ resolved' = [model |-> "none", source |-> "none"]
    /\ modelWarnings' = {}
    /\ allArgs' = <<>>
    /\ agentPc' = "task"
    /\ UNCHANGED <<defaultFlags, agentModel, cliModel>>

\* const {model, source} = this.resolveModelForTask(task)
ResolveModel ==
    /\ AgentFrame
    /\ agentPc = "task"
    /\ resolved' = resolveModelForTask(taskModel, cliModel)
    /\ modelWarnings' = resolveModelWarnings(taskModel, cliModel)
    /\ agentPc' = "resolved"
    /\ UNCHANGED <<defaultFlags, agentModel, cliModel, taskModel, flags, allArgs>>

\* if (resolvedModel) flags.push('--model', resolvedModel)
InjectModelFlag ==
    /\ AgentFrame
    /\ agentPc = "resolved"
    /\ flags' = IF resolved.model # "none"
                THEN flags \o <<"--model", resolved.model>>
                ELSE flags
    /\ agentPc' = "flagged"
    /\ UNCHANGED <<defaultFlags, agentModel, cliModel, taskModel, resolved,
                   modelWarnings, allArgs>>

\* agent.execute(prompt, files, {flags})
Execute ==
    /\ AgentFrame
    /\ agentPc = "flagged"
    /\ allArgs' = executeArgs(defaultFlags, buildArgs(agentModel), flags)
    /\ agentPc' = "executed"
    /\ UNCHANGED <<defaultFlags, agentModel, cliModel, taskModel, resolved,
                   modelWarnings, flags>>

\* the iteration is over
IterationDone ==
    /\ AgentFrame
    /\ agentPc = "executed"
    /\ agentPc' = "ready"
    /\ UNCHANGED <<defaultFlags, agentModel, cliModel, taskModel, resolved,
                   modelWarnings, flags, allArgs>>

AgentNext ==
    \/ \E default \in DefaultFlagSets, model \in AgentModels, cli \in CliModels :
          InitializeAgent(default, model, cli)
    \/ \E model \in TaskModels, others \in OtherEngineFlags :
          TaskStarts(model, others)
    \/ ResolveModel
    \/ InjectModelFlag
    \/ Execute
    \/ IterationDone

-----------------------------------------------------------------------------
(***************************************************************************)
(* The resume command: resolveSession, the tracker-mismatch warning and    *)
(* the session file at the end of the resumed run.                         *)
(*                                                                         *)
(* Session ids are sequences of characters, so that a prefix is a prefix;   *)
(* the empty sequence stands for no id.                                    *)
(***************************************************************************)
SessionIds == {<<"a", "1">>, <<"a", "1", "b">>, <<"a", "2">>}

\* what the user may type as the session id
SessionIdArgs ==
    {<<"a">>, <<"a", "1">>, <<"a", "1", "b">>, <<"a", "2">>, <<"z">>}

Cwds == {"/home/user/project", "/home/user/project2"}

\* null, for a registry entry and for the session resolveSession returns
NoEntry == [sessionId |-> <<>>, cwd |-> "none"]
NoSession == [cwd |-> "none", registryEntry |-> NoEntry]
\* args.sessionId when no id was given
NoSessionId == <<>>

startsWith(id, prefix) ==
    /\ Len(prefix) <= Len(id)
    /\ SubSeq(id, 1, Len(prefix)) = prefix

\* session module: the entry with exactly this id, or null
getSessionById(id) ==
    IF \E e \in registry : e.sessionId = id
    THEN CHOOSE e \in registry : e.sessionId = id
    ELSE NoEntry

\* session module: the entries whose id starts with the prefix
findSessionsByPrefix(prefix) ==
    {e \in registry : startsWith(e.sessionId, prefix)}

\* session module: the entry of this working directory, or null
getSessionByCwd(cwd) ==
    IF \E e \in registry : e.cwd = cwd
    THEN CHOOSE e \in registry : e.cwd = cwd
    ELSE NoEntry

\* session module: <cwd>/.ralph-tui/session.json exists
hasPersistedSession(cwd) == cwd \in sessionFiles

\* a prefix lookup that settles for any of several matches
SelectPrefixMatchAny(matches) ==
    IF matches = {} THEN NoEntry ELSE CHOOSE e \in matches : TRUE

\* the prefix matches select an entry only when there is exactly one
SelectPrefixMatch(matches) ==
    IF Cardinality(matches) = 1 THEN CHOOSE e \in matches : TRUE ELSE NoEntry

Resolved(cwd, entry) ==
    [session |-> [cwd |-> cwd, registryEntry |-> entry], error |-> "none"]

NotResolved(message) == [session |-> NoSession, error |-> message]

\* resolveSession(args), as its tests pin it down
resolveSession(args) ==
    IF args.sessionId # NoSessionId
    THEN LET exact == getSessionById(args.sessionId)
             matches == findSessionsByPrefix(args.sessionId)
             entry == IF exact # NoEntry THEN exact ELSE SelectPrefixMatch(matches)
         IN  IF entry = NoEntry
             THEN IF matches = {}
                  THEN NotResolved("not found in registry")
                  ELSE NotResolved("Multiple sessions match prefix")
             ELSE IF ~hasPersistedSession(entry.cwd)
             THEN NotResolved("session file is missing: --cleanup")
             ELSE Resolved(entry.cwd, entry)
    ELSE LET hasSession == hasPersistedSession(args.cwd)
             entry == getSessionByCwd(args.cwd)
         IN  IF hasSession /\ entry # NoEntry THEN Resolved(args.cwd, entry)
             ELSE IF hasSession THEN Resolved(args.cwd, NoEntry)
             ELSE IF entry # NoEntry
             THEN NotResolved("Session file not found: --cleanup")
             ELSE NotResolved("No session to resume: ralph-tui run")

\* a warning whenever the tracker shows fewer tasks than the session knew
shouldWarnWhenFewer(engineCount, sessionCount) ==
    engineCount < sessionCount

\* shouldWarnAboutTrackerMismatch(engineTaskCount, sessionKnownTaskCount)
shouldWarnAboutTrackerMismatch(engineCount, sessionCount) ==
    engineCount = 0 /\ sessionCount > 0

\* deletion decided by the task counts alone
deleteSessionByCount(stopReason, closed, total, warned) ==
    closed >= total

\* the resumed run deletes the session file only when it completed with all
\* tasks closed, and never after a tracker-mismatch warning
deleteSessionAfterResume(stopReason, closed, total, warned) ==
    /\ ~warned
    /\ stopReason = "completed"
    /\ closed = total

ResumeInit ==
    /\ registry = {}
    /\ sessionFiles = {}
    /\ resumeArgs = [sessionId |-> NoSessionId, cwd |-> "/home/user/project"]
    /\ resumeResult = NotResolved("none")
    /\ sessionKnownTaskCount = 0
    /\ engineTaskCount = 0
    /\ mismatchWarned = FALSE
    /\ resumePc = "idle"

\* a run in cwd registers its session and writes its session file
SessionCreated(id, cwd) ==
    /\ ResumeFrame
    /\ resumePc = "idle"
    /\ registry' = {e \in registry : e.cwd # cwd /\ e.sessionId # id}
                      \cup {[sessionId |-> id, cwd |-> cwd]}
    /\ sessionFiles' = sessionFiles \cup {cwd}
    /\ UNCHANGED <<resumeArgs, resumeResult, sessionKnownTaskCount,
                   engineTaskCount, mismatchWarned, resumePc>>

\* the session file of a working directory goes away
SessionFileLost(cwd) ==
    /\ ResumeFrame
    /\ resumePc = "idle"
    /\ cwd \in sessionFiles
    /\ sessionFiles' = sessionFiles \ {cwd}
    /\ UNCHANGED <<registry, resumeArgs, resumeResult, sessionKnownTaskCount,
                   engineTaskCount, mismatchWarned, resumePc>>

\* a registry entry goes away (--cleanup, or a session older than the registry)
RegistryEntryLost(e) ==
    /\ ResumeFrame
    /\ resumePc = "idle"
    /\ e \in registry
    /\ registry' = registry \ {e}
    /\ UNCHANGED <<sessionFiles, resumeArgs, resumeResult, sessionKnownTaskCount,
                   engineTaskCount, mismatchWarned, resumePc>>

\* ralph-tui resume [sessionId] --cwd cwd
ResumeCommand(id, cwd) ==
    /\ ResumeFrame
    /\ resumePc = "idle"
    /\ resumeArgs' = [sessionId |-> id, cwd |-> cwd]
    /\ resumeResult' = resolveSession(resumeArgs')
    /\ resumePc' = "resolved"
    /\ mismatchWarned' = FALSE
    /\ UNCHANGED <<registry, sessionFiles, sessionKnownTaskCount, engineTaskCount>>

\* resolveSession returned null: the command ends
ResumeRejected ==
    /\ ResumeFrame
    /\ resumePc = "resolved"
    /\ resumeResult.session = NoSession
    /\ resumePc' = "idle"
    /\ UNCHANGED <<registry, sessionFiles, resumeArgs, resumeResult,
                   sessionKnownTaskCount, engineTaskCount, mismatchWarned>>

\* the session file is loaded, the engine initializes from the tracker,
\* and the two task counts are compared
EngineInitialized(known, loaded) ==
    /\ ResumeFrame
    /\ resumePc = "resolved"
    /\ resumeResult.session # NoSession
    /\ sessionKnownTaskCount' = known
    /\ engineTaskCount' = loaded
    /\ mismatchWarned' = shouldWarnAboutTrackerMismatch(loaded, known)
    /\ resumePc' = "initialized"
    /\ UNCHANGED <<registry, sessionFiles, resumeArgs, resumeResult>>

\* the resumed run ends with a stop reason and some of its tasks closed
ResumedRunEnds(stopReason, closed) ==
    /\ ResumeFrame
    /\ resumePc = "initialized"
    /\ closed <= engineTaskCount
    /\ engineTaskCount = 0 => stopReason = "no_tasks"
    /\ stopReason = "completed" <=> (engineTaskCount > 0 /\ closed = engineTaskCount)
    /\ sessionFiles' =
          IF deleteSessionAfterResume(stopReason, closed, engineTaskCount,
                                      mismatchWarned)
          THEN sessionFiles \ {resumeResult.session.cwd}
          ELSE sessionFiles
    /\ resumePc' = "ended"
    /\ UNCHANGED <<registry, resumeArgs, resumeResult, sessionKnownTaskCount,
                   engineTaskCount, mismatchWarned>>

\* the process exits
ResumeExits ==
    /\ ResumeFrame
    /\ resumePc = "ended"
    /\ resumePc' = "idle"
    /\ UNCHANGED <<registry, sessionFiles, resumeArgs, resumeResult,
                   sessionKnownTaskCount, engineTaskCount, mismatchWarned>>

ResumeNext ==
    \/ \E id \in SessionIds, cwd \in Cwds : SessionCreated(id, cwd)
    \/ \E cwd \in Cwds : SessionFileLost(cwd)
    \/ \E e \in registry : RegistryEntryLost(e)
    \/ \E id \in SessionIdArgs \cup {NoSessionId}, cwd \in Cwds : ResumeCommand(id, cwd)
    \/ ResumeRejected
    \/ \E known \in 0..MaxCount, loaded \in 0..MaxCount :
          EngineInitialized(known, loaded)
    \/ \E stopReason \in {"completed", "no_tasks", "user_quit", "max_iterations"},
          closed \in 0..MaxCount : ResumedRunEnds(stopReason, closed)
    \/ ResumeExits

-----------------------------------------------------------------------------
(***************************************************************************)
(* Cancellation: SIGINT and the shutdown of a running session.             *)
(***************************************************************************)
ShutdownSteps == {"signalAgent", "awaitCommits", "persist"}

ShuttingDown == shutdownPc \in {"signal", "await", "persist", "exit"}

\* a shutdown entered again starts over
ReenterShutdownRestarts(pc) == "signal"

\* shutdown is reentrancy-safe: entered again, it does nothing
ReenterShutdown(pc) == pc

ShutdownInit ==
    /\ shutdownPc = "running"
    /\ agentRunning = FALSE
    /\ commitsInFlight = 0
    /\ sigints = 0
    /\ shutdownReason = "none"
    /\ iterationsDone = 0
    /\ persistedStopReason = "none"
    /\ stepsRun = [step \in ShutdownSteps |-> 0]

\* an iteration spawns the agent
AgentSpawns ==
    /\ ShutdownFrame
    /\ shutdownPc = "running"
    /\ ~agentRunning
    /\ agentRunning' = TRUE
    /\ UNCHANGED <<shutdownPc, commitsInFlight, sigints, shutdownReason,
                   iterationsDone, persistedStopReason, stepsRun>>

\* the agent starts a git commit
CommitStarts ==
    /\ ShutdownFrame
    /\ agentRunning
    /\ commitsInFlight < MaxCommits
    /\ commitsInFlight' = commitsInFlight + 1
    /\ UNCHANGED <<shutdownPc, agentRunning, sigints, shutdownReason,
                   iterationsDone, persistedStopReason, stepsRun>>

\* a git commit finishes
CommitFinishes ==
    /\ ShutdownFrame
    /\ shutdownPc \notin {"exited", "killed"}
    /\ commitsInFlight > 0
    /\ commitsInFlight' = commitsInFlight - 1
    /\ UNCHANGED <<shutdownPc, agentRunning, sigints, shutdownReason,
                   iterationsDone, persistedStopReason, stepsRun>>

\* the agent exits: at the end of its iteration, or because it was told to
AgentExits ==
    /\ ShutdownFrame
    /\ shutdownPc \notin {"exited", "killed"}
    /\ agentRunning
    /\ shutdownPc = "running" => iterationsDone < MaxBudget
    /\ agentRunning' = FALSE
    /\ iterationsDone' =
          IF shutdownPc = "running" THEN iterationsDone + 1 ELSE iterationsDone
    /\ UNCHANGED <<shutdownPc, commitsInFlight, sigints, shutdownReason,
                   persistedStopReason, stepsRun>>

\* SIGINT: the first one starts the shutdown, one more during the shutdown
\* force-kills
Sigint ==
    /\ ShutdownFrame
    /\ shutdownPc \notin {"exited", "killed"}
    /\ sigints < 2
    /\ sigints' = sigints + 1
    /\ shutdownPc' = IF ShuttingDown THEN "killed" ELSE "signal"
    /\ shutdownReason' = IF ShuttingDown THEN shutdownReason ELSE "user_pause"
    /\ agentRunning' = (agentRunning /\ ~ShuttingDown)
    /\ UNCHANGED <<commitsInFlight, iterationsDone, persistedStopReason, stepsRun>>

\* Q, or SIGTERM: a shutdown with its own stop reason
OtherStop(reason) ==
    /\ ShutdownFrame
    /\ shutdownPc = "running"
    /\ shutdownPc' = "signal"
    /\ shutdownReason' = reason
    /\ UNCHANGED <<agentRunning, commitsInFlight, sigints, iterationsDone,
                   persistedStopReason, stepsRun>>

\* the shutdown is entered again while it is under way
ShutdownReentered ==
    /\ ShutdownFrame
    /\ ShuttingDown
    /\ shutdownPc' = ReenterShutdown(shutdownPc)
    /\ UNCHANGED <<agentRunning, commitsInFlight, sigints, shutdownReason,
                   iterationsDone, persistedStopReason, stepsRun>>

\* step 1: signal the current agent to stop
SignalAgent ==
    /\ ShutdownFrame
    /\ shutdownPc = "signal"
    /\ stepsRun' = [stepsRun EXCEPT !["signalAgent"] = @ + 1]
    /\ shutdownPc' = "await"
    /\ UNCHANGED <<agentRunning, commitsInFlight, sigints, shutdownReason,
                   iterationsDone, persistedStopReason>>

\* step 2: await the agent and its in-flight git commits
AwaitCommits ==
    /\ ShutdownFrame
    /\ shutdownPc = "await"
    /\ ~agentRunning
    /\ commitsInFlight = 0
    /\ stepsRun' = [stepsRun EXCEPT !["awaitCommits"] = @ + 1]
    /\ shutdownPc' = "persist"
    /\ UNCHANGED <<agentRunning, commitsInFlight, sigints, shutdownReason,
                   iterationsDone, persistedStopReason>>

\* step 3: persist the state with the stop reason (user_pause for SIGINT)
PersistState ==
    /\ ShutdownFrame
    /\ shutdownPc = "persist"
    /\ persistedStopReason' = shutdownReason
    /\ stepsRun' = [stepsRun EXCEPT !["persist"] = @ + 1]
    /\ shutdownPc' = "exit"
    /\ UNCHANGED <<agentRunning, commitsInFlight, sigints, shutdownReason,
                   iterationsDone>>

\* step 4: exit
ShutdownExits ==
    /\ ShutdownFrame
    /\ shutdownPc = "exit"
    /\ shutdownPc' = "exited"
    /\ UNCHANGED <<agentRunning, commitsInFlight, sigints, shutdownReason,
                   iterationsDone, persistedStopReason, stepsRun>>

ShutdownNext ==
    \/ AgentSpawns
    \/ CommitStarts
    \/ CommitFinishes
    \/ AgentExits
    \/ Sigint
    \/ \E reason \in {"user_quit", "external_signal"} : OtherStop(reason)
    \/ ShutdownReentered
    \/ SignalAgent
    \/ AwaitCommits
    \/ PersistState
    \/ ShutdownExits

-----------------------------------------------------------------------------
(***************************************************************************)
(* Parallel executor: admission, worker loops and the serialized merges    *)
(* into the session branch.  The dependency graph of the session is any    *)
(* graph over three tasks, cyclic ones included.                           *)
(***************************************************************************)
ParallelTasks == {"T1", "T2", "T3"}

Workers == 1..MaxWorkers

IdleWorker == [task |-> "none", phase |-> "idle"]

\* the tasks reachable from t along dependency edges
RECURSIVE DependencyClosureFrom(_, _)
DependencyClosureFrom(frontier, seen) ==
    LET next == UNION {dependencyGraph[t] : t \in frontier} \ seen
    IN  IF next = {} THEN seen ELSE DependencyClosureFrom(next, seen \cup next)

DependencyClosure(t) == DependencyClosureFrom({t}, {})

\* a cycle check that sees a task depending on itself only
InCycleDirectOnly(t) == t \in dependencyGraph[t]

\* the task lies on a dependency cycle
InCycle(t) == t \in DependencyClosure(t)

\* tasks a worker holds: running, or waiting for or in its merge
InFlight == {workers[w].task : w \in {v \in Workers : workers[v].phase # "idle"}}

Merged == {mergeOrder[i] : i \in 1..Len(mergeOrder)}

\* admission that looks at the tracker status of the dependencies only
IsAdmissibleByStatus(t) ==
    /\ parallelStatus[t] \in {"open", "in_progress"}
    /\ \A d \in dependencyGraph[t] : parallelStatus[d] = "closed"
    /\ t \notin InFlight

\* eligibility and parallel admission: open or in progress, every dependency
\* closed, not claimed by a worker, and no dependency (transitively) in flight
IsAdmissible(t) ==
    /\ parallelStatus[t] \in {"open", "in_progress"}
    /\ \A d \in dependencyGraph[t] : parallelStatus[d] = "closed"
    /\ t \notin InFlight
    /\ DependencyClosure(t) \cap InFlight = {}

\* the tracker after cycle handling: tasks inside a cycle are blocked
WithCyclesBlocked(status) ==
    [t \in ParallelTasks |-> IF InCycle(t) THEN "blocked" ELSE status[t]]

\* the cycle is logged once per session
CycleLogsAfterPass ==
    IF (\E t \in ParallelTasks : InCycle(t)) /\ cycleLogs = 0
    THEN 1
    ELSE cycleLogs

ParallelInit ==
    /\ dependencyGraph = [t \in ParallelTasks |-> {}]
    /\ parallelStatus = [t \in ParallelTasks |-> "open"]
    /\ workers = [w \in Workers |-> IdleWorker]
    /\ mergeOrder = <<>>
    /\ mergeMutex = 0
    /\ cycleLogs = 0
    /\ parallelPc = "loading"

\* the session reads the tracker's tasks with their dependency edges, whatever
\* they are (cycles included), before the first scheduling pass
LoadTasks(graph) ==
    /\ ParallelFrame
    /\ parallelPc = "loading"
    /\ dependencyGraph' = graph
    /\ parallelPc' = "running"
    /\ UNCHANGED <<parallelStatus, workers, mergeOrder, mergeMutex, cycleLogs>>

\* a scheduling pass admits task t to the free worker w
Admit(w, t) ==
    /\ ParallelFrame
    /\ parallelPc = "running"
    /\ workers[w].phase = "idle"
    /\ IsAdmissible(t)
    /\ parallelStatus' = [WithCyclesBlocked(parallelStatus) EXCEPT ![t] = "in_progress"]
    /\ cycleLogs' = CycleLogsAfterPass
    /\ workers' = [workers EXCEPT ![w] = [task |-> t, phase |-> "running"]]
    /\ UNCHANGED <<dependencyGraph, mergeOrder, mergeMutex, parallelPc>>

\* the worker's agent completed the task: the task is closed and the worker
\* waits for the merge queue
WorkerSucceeds(w) ==
    /\ ParallelFrame
    /\ workers[w].phase = "running"
    /\ parallelStatus' = [parallelStatus EXCEPT ![workers[w].task] = "closed"]
    /\ workers' = [workers EXCEPT ![w].phase = "done"]
    /\ UNCHANGED <<dependencyGraph, mergeOrder, mergeMutex, cycleLogs, parallelPc>>

\* the worker's iteration was unsuccessful: the task stays open
WorkerFails(w) ==
    /\ ParallelFrame
    /\ workers[w].phase = "running"
    /\ parallelStatus' = [parallelStatus EXCEPT ![workers[w].task] = "open"]
    /\ workers' = [workers EXCEPT ![w] = IdleWorker]
    /\ UNCHANGED <<dependencyGraph, mergeOrder, mergeMutex, cycleLogs, parallelPc>>

\* the worker takes the global merge mutex
MergeBegins(w) ==
    /\ ParallelFrame
    /\ workers[w].phase = "done"
    /\ mergeMutex = 0
    /\ mergeMutex' = w
    /\ workers' = [workers EXCEPT ![w].phase = "merging"]
    /\ UNCHANGED <<dependencyGraph, parallelStatus, mergeOrder, cycleLogs,
                   parallelPc>>

\* the worker branch is merged into the session branch
MergeSucceeds(w) ==
    /\ ParallelFrame
    /\ workers[w].phase = "merging"
    /\ mergeOrder' = Append(mergeOrder, workers[w].task)
    /\ mergeMutex' = 0
    /\ workers' = [workers EXCEPT ![w] = IdleWorker]
    /\ UNCHANGED <<dependencyGraph, parallelStatus, cycleLogs, parallelPc>>

\* the merge fails: the worker worktree is preserved and the task surfaces
\* as failed, open for a retry
MergeFails(w) ==
    /\ ParallelFrame
    /\ workers[w].phase = "merging"
    /\ parallelStatus' = [parallelStatus EXCEPT ![workers[w].task] = "open"]
    /\ mergeMutex' = 0
    /\ workers' = [workers EXCEPT ![w] = IdleWorker]
    /\ UNCHANGED <<dependencyGraph, mergeOrder, cycleLogs, parallelPc>>

\* a scheduling pass finds nothing to admit and no worker busy
ParallelSessionEnds ==
    /\ ParallelFrame
    /\ parallelPc = "running"
    /\ \A w \in Workers : workers[w].phase = "idle"
    /\ \A t \in ParallelTasks : ~IsAdmissible(t)
    /\ parallelStatus' = WithCyclesBlocked(parallelStatus)
    /\ cycleLogs' = CycleLogsAfterPass
    /\ parallelPc' = "ended"
    /\ UNCHANGED <<dependencyGraph, workers, mergeOrder, mergeMutex>>

ParallelNext ==
    \/ \E graph \in [ParallelTasks -> SUBSET ParallelTasks] : LoadTasks(graph)
    \/ \E w \in Workers, t \in ParallelTasks : Admit(w, t)
    \/ \E w \in Workers : WorkerSucceeds(w)
    \/ \E w \in Workers : WorkerFails(w)
    \/ \E w \in Workers : MergeBegins(w)
    \/ \E w \in Workers : MergeSucceeds(w)
    \/ \E w \in Workers : MergeFails(w)
    \/ ParallelSessionEnds

-----------------------------------------------------------------------------
-----------------------------------------------------------------------------
(***************************************************************************)
(* Error-handling policy of the iteration engine:                          *)
(* {strategy, maxRetries, retryDelayMs, continueOnNonZeroExit}.            *)
(*                                                                         *)
(* A session runs iterations on the open tasks of the tracker; what a      *)
(* failed iteration leads to is the policy's strategy.  A task whose       *)
(* retries are used up is treated as a skipped one.                        *)
(***************************************************************************)
Strategies == {"skip", "retry", "abort"}
PolicyTasks == {"TEST-001", "TEST-002"}

\* a retry check that allows one re-run more than maxRetries
ShouldRetryInclusive(policy, retries) ==
    policy.strategy = "retry" /\ retries <= policy.maxRetries

\* retry re-runs the same task up to maxRetries
ShouldRetry(policy, retries) ==
    policy.strategy = "retry" /\ retries < policy.maxRetries

\* the tasks a scheduling pass may select: open, and not failed this session
Selectable == (PolicyTasks \ policyClosed) \ failedThisSession

PolicyInit ==
    /\ errorHandling = [strategy |-> "skip", maxRetries |-> 0]
    /\ policyTask = "none"
    /\ retryCount = 0
    /\ failedThisSession = {}
    /\ policyClosed = {}
    /\ policyStopReason = "none"
    /\ runsOfTask = [t \in PolicyTasks |-> 0]
    /\ policyPc = "config"

\* a session starts with the policy of its configuration; nothing has failed
\* in it yet
SessionStarts(strategy, maxRetries) ==
    /\ PolicyFrame
    /\ policyPc \in {"config", "stopped"}
    /\ errorHandling' = [strategy |-> strategy, maxRetries |-> maxRetries]
    /\ policyTask' = "none"
    /\ retryCount' = 0
    /\ failedThisSession' = {}
    /\ policyStopReason' = "none"
    /\ runsOfTask' = [t \in PolicyTasks |-> 0]
    /\ policyPc' = "select"
    /\ UNCHANGED policyClosed

\* the next task is acquired from the scheduler, or the session stops
AcquireTask ==
    /\ PolicyFrame
    /\ policyPc = "select"
    /\ IF policyClosed = PolicyTasks
       THEN /\ policyStopReason' = "completed"
            /\ policyPc' = "stopped"
            /\ UNCHANGED <<policyTask, retryCount, runsOfTask>>
       ELSE IF Selectable = {}
       THEN /\ policyStopReason' = "no_tasks"
            /\ policyPc' = "stopped"
            /\ UNCHANGED <<policyTask, retryCount, runsOfTask>>
       ELSE \E t \in Selectable :
               /\ policyTask' = t
               /\ retryCount' = 0
               /\ runsOfTask' = [runsOfTask EXCEPT ![t] = @ + 1]
               /\ policyPc' = "agent"
               /\ UNCHANGED policyStopReason
    /\ UNCHANGED <<errorHandling, failedThisSession, policyClosed>>

\* the iteration succeeded: the task is closed
IterationSucceeds ==
    /\ PolicyFrame
    /\ policyPc = "agent"
    /\ policyClosed' = policyClosed \cup {policyTask}
    /\ policyTask' = "none"
    /\ policyPc' = "select"
    /\ UNCHANGED <<errorHandling, retryCount, failedThisSession,
                   policyStopReason, runsOfTask>>

\* the iteration failed: abort stops the session, retry runs the task again,
\* skip (and retry out of retries) marks it failed for this session
IterationFails ==
    /\ PolicyFrame
    /\ policyPc = "agent"
    /\ IF errorHandling.strategy = "abort"
       THEN /\ policyStopReason' = "fatal_error"
            /\ policyPc' = "stopped"
            /\ policyTask' = "none"
            /\ UNCHANGED <<retryCount, failedThisSession, runsOfTask>>
       ELSE IF ShouldRetry(errorHandling, retryCount)
       THEN /\ retryCount' = retryCount + 1
            /\ runsOfTask' = [runsOfTask EXCEPT ![policyTask] = @ + 1]
            /\ UNCHANGED <<policyTask, policyPc, failedThisSession,
                           policyStopReason>>
       ELSE /\ failedThisSession' = failedThisSession \cup {policyTask}
            /\ policyTask' = "none"
            /\ policyPc' = "select"
            /\ UNCHANGED <<retryCount, policyStopReason, runsOfTask>>
    /\ UNCHANGED <<errorHandling, policyClosed>>

PolicyNext ==
    \/ \E strategy \in Strategies, maxRetries \in 0..MaxRetries :
          SessionStarts(strategy, maxRetries)
    \/ AcquireTask
    \/ IterationSucceeds
    \/ IterationFails
-----------------------------------------------------------------------------
(***************************************************************************)
(* Environment filter of the agent adapters: getEnvExclusionReport.        *)
(*                                                                         *)
(* A variable name and a pattern are sequences of words ("_" is a word);   *)
(* the word "*" of a pattern stands for any run of words.                  *)
(***************************************************************************)
DEFAULT_ENV_EXCLUDE_PATTERNS ==
    {<<"*", "_", "API", "_", "KEY">>,
     <<"*", "_", "SECRET", "_", "KEY">>,
     <<"*", "_", "SECRET">>}

\* the names of the process environment, in the order sort() puts them
SortedEnvNames ==
    <<<<"ALPHA", "_", "API", "_", "KEY">>,
      <<"API", "_", "KEY">>,
      <<"AWS", "_", "SECRET", "_", "KEY">>,
      <<"CUSTOM", "_", "VAR">>,
      <<"DB", "_", "SECRET">>,
      <<"HOME">>>>

EnvNames == {SortedEnvNames[i] : i \in DOMAIN SortedEnvNames}

EnvRank(name) == CHOOSE i \in DOMAIN SortedEnvNames : SortedEnvNames[i] = name

\* glob match of a whole name
RECURSIVE GlobMatch(_, _)
GlobMatch(pattern, name) ==
    IF pattern = <<>> THEN name = <<>>
    ELSE IF Head(pattern) = "*"
    THEN \/ GlobMatch(Tail(pattern), name)
         \/ name # <<>> /\ GlobMatch(pattern, Tail(name))
    ELSE /\ name # <<>>
         /\ Head(name) = Head(pattern)
         /\ GlobMatch(Tail(pattern), Tail(name))

MatchesAny(patterns, name) == \E p \in patterns : GlobMatch(p, name)

\* Array.prototype.sort of a list of names
RECURSIVE SortNames(_)
SortNames(names) ==
    IF names = <<>> THEN <<>>
    ELSE LET least == CHOOSE i \in DOMAIN names :
                         \A j \in DOMAIN names :
                            EnvRank(names[i]) <= EnvRank(names[j])
             rest == [k \in 1..(Len(names) - 1) |->
                         IF k < least THEN names[k] ELSE names[k + 1]]
         IN  <<names[least]>> \o SortNames(rest)

\* a report that lists the variables in the order of the environment
getEnvExclusionReportUnsorted(env, passthrough, additionalExclude) ==
    LET patterns == DEFAULT_ENV_EXCLUDE_PATTERNS \cup additionalExclude
        excluded(n) == MatchesAny(patterns, n)
        passed(n) == MatchesAny(passthrough, n)
        isBlocked(n) == excluded(n) /\ ~passed(n)
        isAllowed(n) == excluded(n) /\ passed(n)
    IN  [blocked |-> SelectSeq(env, isBlocked),
         allowed |-> SelectSeq(env, isAllowed)]

\* getEnvExclusionReport(env, passthroughPatterns, additionalExclude)
getEnvExclusionReport(env, passthrough, additionalExclude) ==
    LET patterns == DEFAULT_ENV_EXCLUDE_PATTERNS \cup additionalExclude
        excluded(n) == MatchesAny(patterns, n)
        passed(n) == MatchesAny(passthrough, n)
        isBlocked(n) == excluded(n) /\ ~passed(n)
        isAllowed(n) == excluded(n) /\ passed(n)
    IN  [blocked |-> SortNames(SelectSeq(env, isBlocked)),
         allowed |-> SortNames(SelectSeq(env, isAllowed))]

\* environments: lists of distinct names, in any order
Environments ==
    {env \in UNION {[1..n -> EnvNames] : n \in 0..MaxEnvVars} :
        \A i, j \in DOMAIN env : i # j => env[i] # env[j]}

\* envPassthrough and envExclude of the configurations tried
PassthroughConfigs ==
    {{}, {<<"*", "_", "API", "_", "KEY">>},
     {<<"DB", "_", "SECRET">>, <<"HOME">>}}
ExcludeConfigs == {{}, {<<"CUSTOM", "_", "VAR">>}, {<<"*", "_", "KEY">>}}

NoReport == [blocked |-> <<>>, allowed |-> <<>>]

EnvFilterInit ==
    /\ processEnv = <<>>
    /\ envPassthrough = {}
    /\ envExclude = {}
    /\ exclusionReport = NoReport
    /\ envFilterPc = "init"

\* agent.initialize({envExclude, envPassthrough}) in some environment
InitializeEnvFilter(env, passthrough, exclude) ==
    /\ envFilterPc = "init"
    /\ EnvFilterFrame
    /\ processEnv' = env
    /\ envPassthrough' = passthrough
    /\ envExclude' = exclude
    /\ exclusionReport' = NoReport
    /\ envFilterPc' = "ready"

\* agent.getExclusionReport()
GetExclusionReport ==
    /\ EnvFilterFrame
    /\ envFilterPc = "ready"
    /\ exclusionReport' = getEnvExclusionReport(processEnv, envPassthrough, envExclude)
    /\ envFilterPc' = "reported"
    /\ UNCHANGED <<processEnv, envPassthrough, envExclude>>

\* agent.dispose()
DisposeAgent ==
    /\ EnvFilterFrame
    /\ envFilterPc = "reported"
    /\ processEnv' = <<>>
    /\ envPassthrough' = {}
    /\ envExclude' = {}
    /\ exclusionReport' = NoReport
    /\ envFilterPc' = "init"

EnvFilterNext ==
    \/ \E env \in Environments, passthrough \in PassthroughConfigs,
          exclude \in ExcludeConfigs :
          InitializeEnvFilter(env, passthrough, exclude)
    \/ GetExclusionReport
    \/ DisposeAgent
-----------------------------------------------------------------------------
(***************************************************************************)
(* checkDiskSpace: the free-space check before a worktree is created       *)
(*                                                                         *)
(* Numbers of bytes.  A probe that gives no number reads "none".           *)
(***************************************************************************)
\* 500 * 1024 * 1024
DEFAULT_MIN_FREE_DISK_SPACE == 524288000

\* what a probe read: a number, or nothing
NoNumber == [known |-> FALSE, value |-> 0]
Reading(n) == [known |-> TRUE, value |-> n]

\* fs.promises.statfs(cwd): throws, or Number(bavail) * Number(bsize)
StatfsValue(free, statfsWorks) == IF statfsWorks THEN Reading(free) ELSE NoNumber

\* df -k cwd: fails, prints no avail column, or prints the available KiB
DfOutputs == {"fails", "no avail column", "avail"}

DfKb(free, dfOutput) ==
    IF dfOutput = "avail" THEN Reading(free \div 1024) ELSE NoNumber

\* statfs counts when it is finite and > 0, else df counts when it is >= 0;
\* no number: proceed optimistically
checkDiskSpace(statfs, dfKb) ==
    LET available == IF statfs.known /\ statfs.value > 0 THEN statfs
                     ELSE IF dfKb.known /\ dfKb.value >= 0
                     THEN Reading(dfKb.value * 1024)
                     ELSE NoNumber
    IN  IF ~available.known THEN "proceed"
        ELSE IF available.value < DEFAULT_MIN_FREE_DISK_SPACE
        THEN "Insufficient disk space"
        ELSE "proceed"

\* prepareSessionWorktree with its disk check: a reused worktree needs none;
\* attaching and creating check before they touch anything
prepareSessionWorktreeChecked(r, resume, statfs, dfKb) ==
    IF resume /\ r.wtReg
    THEN [ok |-> TRUE, mode |-> "reused", repo |-> r, error |-> "none"]
    ELSE IF checkDiskSpace(statfs, dfKb) # "proceed"
    THEN [ok |-> FALSE, mode |-> "none", repo |-> r,
          error |-> checkDiskSpace(statfs, dfKb)]
    ELSE [ok |-> prepareSessionWorktree(r, resume).ok,
          mode |-> prepareSessionWorktree(r, resume).mode,
          repo |-> prepareSessionWorktree(r, resume).repo,
          error |-> "none"]

\* free space on the volume of cwd
FreeSpaces ==
    {0, 1023, 1024, DEFAULT_MIN_FREE_DISK_SPACE - 1, DEFAULT_MIN_FREE_DISK_SPACE,
     DEFAULT_MIN_FREE_DISK_SPACE + 1024}

\* the repository before the run: nothing, a preserved session worktree, the
\* session branch alone, a stale directory at the worktree path
DiskRepos ==
    {NoWorktree,
     [NoWorktree EXCEPT !.wtDir = TRUE, !.wtReg = TRUE, !.branch = TRUE,
                        !.ahead = TRUE],
     [NoWorktree EXCEPT !.branch = TRUE, !.ahead = TRUE],
     [NoWorktree EXCEPT !.wtDir = TRUE]}

NoDiskProbe ==
    [free |-> 0, statfs |-> NoNumber, dfKb |-> NoNumber, resume |-> FALSE]

NoPrepared == [ok |-> FALSE, mode |-> "none", repo |-> NoWorktree, error |-> "none"]

DiskInit ==
    /\ diskProbe = NoDiskProbe
    /\ diskRepo = NoWorktree
    /\ diskPrepared = NoPrepared
    /\ diskPc = "idle"

\* run --worktree [--resume] begins, on some volume and in some repository
DiskRunBegins(r, resume, free, statfsWorks, dfOutput) ==
    /\ diskPc = "idle"
    /\ DiskFrame
    /\ diskRepo' = r
    /\ diskProbe' = [free |-> free, statfs |-> StatfsValue(free, statfsWorks),
                     dfKb |-> DfKb(free, dfOutput), resume |-> resume]
    /\ diskPrepared' = NoPrepared
    /\ diskPc' = "prepare"

PrepareChecked ==
    /\ diskPc = "prepare"
    /\ DiskFrame
    /\ diskPrepared' = prepareSessionWorktreeChecked(diskRepo, diskProbe.resume,
                                                     diskProbe.statfs, diskProbe.dfKb)
    /\ diskPc' = "prepared"
    /\ UNCHANGED <<diskProbe, diskRepo>>

DiskRunEnds ==
    /\ diskPc = "prepared"
    /\ DiskFrame
    /\ diskPc' = "idle"
    /\ UNCHANGED <<diskProbe, diskRepo, diskPrepared>>

DiskNext ==
    \/ \E r \in DiskRepos, resume \in BOOLEAN, free \in FreeSpaces,
          statfsWorks \in BOOLEAN, dfOutput \in DfOutputs :
          DiskRunBegins(r, resume, free, statfsWorks, dfOutput)
    \/ PrepareChecked
    \/ DiskRunEnds
-----------------------------------------------------------------------------
(***************************************************************************)
(* sanitizeBranchSegment: the session name                                 *)
(*                                                                         *)
(* A string is a sequence of tokens.  "a" is a letter, "lock" the four     *)
(* letters l, o, c, k, "TAB" a white-space character that is a control     *)
(* character too, "CTRL" a control character that is no white space, "~"   *)
(* one of ~ ^ : ? * [ \ @ {.  "base64" stands for the letters and digits   *)
(* of the input's base64 text, "session" for the literal 'session'.        *)
(***************************************************************************)
NameTokens == {"a", "lock", ".", "/", "-", " ", "TAB", "CTRL", "~"}

IsWhitespace(c) == c \in {" ", "TAB"}

IsControl(c) == c \in {"TAB", "CTRL"}

IsGitInvalid(c) == c = "~"

RECURSIVE MapTokens(_, _)
\* String.prototype.replace(/[...]/g, '-')
MapTokens(s, to) ==
    IF s = <<>> THEN <<>>
    ELSE <<IF IsWhitespace(Head(s)) \/ IsGitInvalid(Head(s)) THEN to ELSE Head(s)>>
            \o MapTokens(Tail(s), to)

RECURSIVE RemoveControl(_)
\* replace(/\p{Cc}/gu, '')
RemoveControl(s) ==
    IF s = <<>> THEN <<>>
    ELSE (IF IsControl(Head(s)) THEN <<>> ELSE <<Head(s)>>) \o RemoveControl(Tail(s))

RECURSIVE CollapseRuns(_, _)
\* replace(/c+/g, 'c')
CollapseRuns(s, c) ==
    IF Len(s) < 2 THEN s
    ELSE IF s[1] = c /\ s[2] = c THEN CollapseRuns(Tail(s), c)
    ELSE <<s[1]>> \o CollapseRuns(Tail(s), c)

IsEdgeChar(c) == c \in {".", "/", "-"}

RECURSIVE StripLeading(_)
StripLeading(s) ==
    IF s # <<>> /\ IsEdgeChar(Head(s)) THEN StripLeading(Tail(s)) ELSE s

RECURSIVE StripTrailing(_)
StripTrailing(s) ==
    IF s # <<>> /\ IsEdgeChar(s[Len(s)])
    THEN StripTrailing(SubSeq(s, 1, Len(s) - 1))
    ELSE s

\* sanitized.endsWith('.lock')
EndsWithDotLock(s) ==
    Len(s) >= 2 /\ s[Len(s) - 1] = "." /\ s[Len(s)] = "lock"

\* Buffer.from(input).toString('base64').replace(/[^a-zA-Z0-9]/g, '')
\*    .slice(0, 8) || 'session'
HashFallback(input) == IF input = <<>> THEN <<"session">> ELSE <<"base64">>

sanitizeBranchSegment(input) ==
    LET replaced == MapTokens(input, "-")
        cleaned == RemoveControl(replaced)
        slashes == CollapseRuns(cleaned, "/")
        dashes == CollapseRuns(slashes, "-")
        dots == CollapseRuns(dashes, ".")
        stripped == StripLeading(StripTrailing(dots))
        unlocked == IF EndsWithDotLock(stripped)
                    THEN SubSeq(stripped, 1, Len(stripped) - 2)
                    ELSE stripped
    IN  IF unlocked = <<>> THEN HashFallback(input) ELSE unlocked

RECURSIVE NamesUpTo(_)
\* every string of up to n tokens
NamesUpTo(n) ==
    IF n = 0 THEN {<<>>}
    ELSE NamesUpTo(n - 1) \cup
         {Append(s, c) : s \in {t \in NamesUpTo(n - 1) : Len(t) = n - 1},
                         c \in NameTokens}

NameInit ==
    /\ nameInput = <<>>
    /\ sessionName = <<>>
    /\ namePc = "idle"

\* deriveSessionName: --worktree <name>, the epic id or the PRD's base name
DeriveSessionName(input) ==
    /\ namePc = "idle"
    /\ NameFrame
    /\ nameInput' = input
    /\ sessionName' = sanitizeBranchSegment(input)
    /\ namePc' = "derived"

\* the name was used; the next run may begin
NameUsed ==
    /\ namePc = "derived"
    /\ NameFrame
    /\ nameInput' = <<>>
    /\ sessionName' = <<>>
    /\ namePc' = "idle"

\* the names a run may be given
GivenNames == NamesUpTo(MaxName)

NameNext ==
    \/ \E input \in (IF namePc = "idle" THEN GivenNames ELSE {}) :
          DeriveSessionName(input)
    \/ NameUsed
-----------------------------------------------------------------------------
(***************************************************************************)
(* ai-resolver.ts: extractResolvedContent over every agent output          *)
(***************************************************************************)
ExtractInit ==
    /\ extractStdout = <<>>
    /\ extracted = Null
    /\ extractPc = "idle"

\* every output of up to MaxOutput tokens
AgentStdouts == UNION {[1..n -> OutputTokens] : n \in 0..MaxOutput}

\* the callback hands result.stdout to extractResolvedContent
ExtractCalled(stdout) ==
    /\ extractPc = "idle"
    /\ ExtractFrame
    /\ extractStdout' = stdout
    /\ extracted' = extractResolvedContent(stdout)
    /\ extractPc' = "extracted"

\* the callback returned; the next conflict may come
ExtractReturned ==
    /\ extractPc = "extracted"
    /\ ExtractFrame
    /\ extractStdout' = <<>>
    /\ extracted' = Null
    /\ extractPc' = "idle"

ExtractNext ==
    \/ \E stdout \in (IF extractPc = "idle" THEN AgentStdouts ELSE {}) :
          ExtractCalled(stdout)
    \/ ExtractReturned
-----------------------------------------------------------------------------
(***************************************************************************)
(* session-worktree.ts: copyTrackerData for the beads trackers             *)
(***************************************************************************)
BeadsPlugins == {"beads", "beads-rust", "beads-bv"}

\* what <cwd>/.beads may hold, as paths below it
BeadsEntries ==
    {<<"issues.jsonl">>, <<"beads.db">>, <<"beads.db-wal">>, <<"daemon.lock">>,
     <<"last-touched">>, <<"export.tmp", "part">>, <<"hooks", "notes.md">>,
     <<"hooks", "beads.db">>, <<"hooks", "last-touched">>}

BeadsCwd == <<"proj">>
BeadsWorktree == <<".ralph-worktrees", "proj", "name">>

NoBeadsCall == [cwd |-> <<>>, worktreePath |-> <<>>, trackerPlugin |-> "none"]

BeadsInit ==
    /\ beadsFs = EmptyFs
    /\ beadsBefore = EmptyFs
    /\ beadsCall = NoBeadsCall
    /\ beadsSync = NoSync
    /\ beadsPc = "idle"

\* createSessionWorktree is about to copy the tracker data of a project
\* whose .beads directory holds these entries
BeadsWorktreeAdded(trackerPlugin, entries) ==
    /\ BeadsFrame
    /\ beadsPc = "idle"
    /\ beadsFs' = [p \in {pathJoin(BeadsCwd, <<".beads">> \o e) : e \in entries} |->
                     "written before the sync"]
    /\ beadsBefore' = beadsFs'
    /\ beadsCall' = [cwd |-> BeadsCwd, worktreePath |-> BeadsWorktree,
                     trackerPlugin |-> trackerPlugin]
    /\ beadsSync' = NoSync
    /\ beadsPc' = "copy"

\* copyTrackerData(cwd, worktreePath, trackerPlugin)
BeadsCopyTrackerData(syncWorks) ==
    /\ BeadsFrame
    /\ beadsPc = "copy"
    /\ LET r == copyTrackerData(beadsFs, beadsCall.cwd, beadsCall.worktreePath,
                                beadsCall.trackerPlugin, NoPrdPath, syncWorks)
       IN  /\ beadsFs' = r.fs
           /\ beadsSync' = r.sync
    /\ beadsPc' = "copied"
    /\ UNCHANGED <<beadsBefore, beadsCall>>

\* the session is over; another one may be set up
BeadsReset ==
    /\ BeadsFrame
    /\ beadsPc = "copied"
    /\ beadsFs' = EmptyFs
    /\ beadsBefore' = EmptyFs
    /\ beadsCall' = NoBeadsCall
    /\ beadsSync' = NoSync
    /\ beadsPc' = "idle"

BeadsNext ==
    \/ \E trackerPlugin \in BeadsPlugins, entries \in SUBSET BeadsEntries :
          BeadsWorktreeAdded(trackerPlugin, entries)
    \/ \E syncWorks \in BOOLEAN : BeadsCopyTrackerData(syncWorks)
    \/ BeadsReset
-----------------------------------------------------------------------------
(***************************************************************************)
(* remote/instance-manager.ts                                              *)
(***************************************************************************)
Aliases == {"a", "b"}

\* what listRemotes may give: the remotes of the configuration, each once
RemoteLists == {<<>>, <<"a">>, <<"b">>, <<"a", "b">>, <<"b", "a">>}

\* createLocalTab(): no alias, connected
LocalTab == [isLocal |-> TRUE, alias |-> "", status |-> "connected"]

\* createRemoteTab(alias, host, port): disconnected
createRemoteTab(alias) == [isLocal |-> FALSE, alias |-> alias, status |-> "disconnected"]

ClientEvents ==
    {"connecting", "connected", "disconnected", "reconnecting", "reconnected",
     "reconnect_failed", "metrics_updated"}

NoClients == [a \in {} |-> ""]

TabAliases(ts) == {ts[i].alias : i \in 1..Len(ts)}

\* the tab status handleClientEvent sets for an event
TabStatusFor(event, old) ==
    CASE event = "connecting" -> "connecting"
      [] event \in {"connected", "reconnected"} -> "connected"
      [] event \in {"disconnected", "reconnect_failed"} -> "disconnected"
      [] event = "reconnecting" -> "reconnecting"
      [] OTHER -> old

\* updateTabStatus for the tab of an alias
updateTabStatus(ts, alias, status) ==
    [i \in 1..Len(ts) |->
        IF ts[i].alias = alias THEN [ts[i] EXCEPT !.status = status] ELSE ts[i]]

RECURSIVE FilterTabs(_, _)
\* this.tabs.filter: the local tab and the remote tabs whose alias is kept
FilterTabs(ts, keep) ==
    IF ts = <<>> THEN <<>>
    ELSE IF Head(ts).isLocal \/ (Head(ts).alias # "" /\ Head(ts).alias \in keep)
         THEN <<Head(ts)>> \o FilterTabs(Tail(ts), keep)
         ELSE FilterTabs(Tail(ts), keep)

RECURSIVE PushNewTabs(_, _)
\* a tab is pushed for every remote that has none
PushNewTabs(ts, remotes) ==
    IF remotes = <<>> THEN ts
    ELSE PushNewTabs(IF Head(remotes) \in TabAliases(ts)
                     THEN ts
                     ELSE Append(ts, createRemoteTab(Head(remotes))),
                     Tail(remotes))

RECURSIVE PushTabs(_, _)
\* initialize pushes a tab for every remote
PushTabs(ts, remotes) ==
    IF remotes = <<>> THEN ts
    ELSE PushTabs(Append(ts, createRemoteTab(Head(remotes))), Tail(remotes))

Range(s) == {s[i] : i \in 1..Len(s)}

Restrict(f, keys) == [k \in DOMAIN f \cap keys |-> f[k]]

InstInit ==
    /\ tabs = <<>>
    /\ selectedIndex = 0
    /\ clients = NoClients
    /\ remoteConfigs = {}
    /\ detached = {}
    /\ quiet = {}
    /\ instPc = "constructed"

\* initialize(): the local tab, then a tab for every remote of listRemotes
Initialize(remotes) ==
    /\ InstFrame
    /\ instPc = "constructed"
    /\ tabs' = PushTabs(<<LocalTab>>, remotes)
    /\ remoteConfigs' = remoteConfigs \cup Range(remotes)
    /\ instPc' = "ready"
    /\ UNCHANGED <<selectedIndex, clients, detached, quiet>>

\* connectToRemote(tab) up to its await: the new tabs and clients
connectToRemote(ts, cs, configs, alias) ==
    IF alias \notin configs
    THEN [tabs |-> updateTabStatus(ts, alias, "disconnected"), clients |-> cs]
    ELSE IF alias \in DOMAIN cs /\ cs[alias] = "connected"
    THEN [tabs |-> ts, clients |-> cs]
    ELSE [tabs |-> updateTabStatus(ts, alias, "connecting"),
          clients |-> [a \in DOMAIN cs \cup {alias} |->
                         IF a \in DOMAIN cs THEN cs[a] ELSE "disconnected"]]

\* a refresh that does not look at selectedIndex after the tabs were removed
refreshWithoutClamp(remotes) ==
    /\ InstFrame
    /\ instPc = "ready"
    /\ LET kept == FilterTabs(tabs, Range(remotes))
           gone == TabAliases(tabs) \ TabAliases(kept)
       IN  /\ tabs' = PushNewTabs(kept, remotes)
           /\ clients' = Restrict(clients, DOMAIN clients \ gone)
           /\ detached' = detached \cup (DOMAIN clients \cap gone)
           /\ remoteConfigs' = remoteConfigs \cup Range(remotes)
    /\ quiet' = quiet \ (TabAliases(tabs) \ TabAliases(tabs'))
    /\ UNCHANGED <<selectedIndex, instPc>>

\* selectTab(index): nothing when the index is out of range; else the tab is
\* selected and, when it is a disconnected remote, connectToRemote begins
selectTab(index) ==
    /\ InstFrame
    /\ instPc = "ready"
    /\ IF index < 0 \/ index >= Len(tabs)
       THEN UNCHANGED <<tabs, selectedIndex, clients, quiet>>
       ELSE /\ selectedIndex' = index
            /\ quiet' = quiet \ {tabs[index + 1].alias}
            /\ IF ~tabs[index + 1].isLocal /\ tabs[index + 1].status = "disconnected"
               THEN LET r == connectToRemote(tabs, clients, remoteConfigs,
                                             tabs[index + 1].alias)
                    IN  /\ tabs' = r.tabs
                        /\ clients' = r.clients
               ELSE UNCHANGED <<tabs, clients>>
    /\ UNCHANGED <<remoteConfigs, detached, instPc>>

\* selectNextTab(): (selectedIndex + 1) % tabs.length
selectNextTab == selectTab((selectedIndex + 1) % Len(tabs))

\* selectPreviousTab(): (selectedIndex - 1 + tabs.length) % tabs.length
selectPreviousTab == selectTab((selectedIndex - 1 + Len(tabs)) % Len(tabs))

\* disconnectAll(): every client is disconnected and dropped, every remote
\* tab is set to disconnected
disconnectAll ==
    /\ InstFrame
    /\ instPc = "ready"
    /\ detached' = detached \cup DOMAIN clients
    /\ clients' = NoClients
    /\ tabs' = [i \in 1..Len(tabs) |->
                  IF tabs[i].isLocal THEN tabs[i]
                  ELSE [tabs[i] EXCEPT !.status = "disconnected"]]
    /\ quiet' = TabAliases(tabs) \ {""}
    /\ UNCHANGED <<selectedIndex, remoteConfigs, instPc>>

\* refresh(): listRemotes is awaited, and in one turn the tabs of deleted
\* remotes go, with their clients, tabs of new remotes are pushed and
\* selectedIndex is brought into range
refresh(remotes) ==
    /\ InstFrame
    /\ instPc = "ready"
    /\ LET kept == FilterTabs(tabs, Range(remotes))
           gone == TabAliases(tabs) \ TabAliases(kept)
       IN  /\ tabs' = PushNewTabs(kept, remotes)
           /\ clients' = Restrict(clients, DOMAIN clients \ gone)
           /\ detached' = detached \cup (DOMAIN clients \cap gone)
           /\ remoteConfigs' = remoteConfigs \cup Range(remotes)
           /\ quiet' = quiet \ gone
    /\ selectedIndex' = IF selectedIndex >= Len(tabs')
                        THEN (IF Len(tabs') - 1 > 0 THEN Len(tabs') - 1 ELSE 0)
                        ELSE selectedIndex
    /\ UNCHANGED instPc

\* handleClientEvent(alias, event): an event of the client the map holds for
\* the alias (registered) or of one that was disconnected and dropped
handleClientEvent(alias, event, registered) ==
    /\ InstFrame
    /\ instPc = "ready"
    /\ IF registered THEN alias \in DOMAIN clients ELSE alias \in detached
    /\ clients' = IF registered
                  THEN [clients EXCEPT ![alias] = TabStatusFor(event, @)]
                  ELSE clients
    /\ tabs' = IF alias \in TabAliases(tabs)
               THEN LET old == (CHOOSE i \in 1..Len(tabs) : tabs[i].alias = alias)
                    IN  updateTabStatus(tabs, alias, TabStatusFor(event, tabs[old].status))
               ELSE tabs
    /\ UNCHANGED <<selectedIndex, remoteConfigs, detached, quiet,
                   instPc>>

InstNext ==
    \/ \E remotes \in RemoteLists : Initialize(remotes)
    \/ \E index \in -1..MaxIndex : selectTab(index)
    \/ instPc = "ready" /\ selectNextTab
    \/ instPc = "ready" /\ selectPreviousTab
    \/ disconnectAll
    \/ \E remotes \in RemoteLists : refresh(remotes)
    \/ \E alias \in Aliases, event \in ClientEvents, registered \in BOOLEAN :
          handleClientEvent(alias, event, registered)
-----------------------------------------------------------------------------
(***************************************************************************)
(* sandbox/wrapper.ts: SandboxWrapper.wrapWithBwrap                        *)
(*                                                                         *)
(* An argument is a sequence of strings: <<"--bind">> is a flag, a path    *)
(* string is "/" followed by its segments when absolute and its segments   *)
(* alone when relative, <<" ">> is a string of white space only.           *)
(***************************************************************************)
LINUX_SYSTEM_DIRS ==
    <<(<<"/", "usr">>), (<<"/", "bin">>), (<<"/", "lib">>), (<<"/", "lib64">>),
      (<<"/", "sbin">>), (<<"/", "etc">>)>>

\* isAbsolute(path)
isAbsolute(path) == path # <<>> /\ Head(path) = "/"

\* resolve(cwd, path) for a relative path and an absolute cwd
resolve(cwd, path) == <<"/">> \o NormalizeFrom(Tail(cwd) \o path, <<>>)

RECURSIVE Dedupe(_, _)
\* new Set(array), in insertion order
Dedupe(array, seen) ==
    IF array = <<>> THEN seen
    ELSE Dedupe(Tail(array),
                IF \E i \in 1..Len(seen) : seen[i] = Head(array)
                THEN seen
                ELSE Append(seen, Head(array)))

RECURSIVE ResolveAll(_, _)
\* .filter((path) => path.trim().length > 0)
\* .map((path) => (isAbsolute(path) ? path : resolve(cwd, path)))
ResolveAll(paths, cwd) ==
    IF paths = <<>> THEN <<>>
    ELSE IF Head(paths) \in {<<>>, <<" ">>} THEN ResolveAll(Tail(paths), cwd)
    ELSE <<IF isAbsolute(Head(paths)) THEN Head(paths) ELSE resolve(cwd, Head(paths))>>
         \o ResolveAll(Tail(paths), cwd)

normalizePaths(paths, cwd) == Dedupe(ResolveAll(paths, cwd), <<>>)

getRequirementPaths(requirements) ==
    requirements.authPaths \o requirements.binaryPaths \o requirements.runtimePaths

RECURSIVE Without(_, _)
\* readOnlyPaths.delete(path) for every path of readWritePaths
Without(paths, deleted) ==
    IF paths = <<>> THEN <<>>
    ELSE IF \E i \in 1..Len(deleted) : deleted[i] = Head(paths)
    THEN Without(Tail(paths), deleted)
    ELSE <<Head(paths)>> \o Without(Tail(paths), deleted)

RECURSIVE BindArgs(_, _)
\* bwrapArgs.push(flag, path, path) for every path
BindArgs(flag, paths) ==
    IF paths = <<>> THEN <<>>
    ELSE <<(<<flag>>), Head(paths), Head(paths)>> \o BindArgs(flag, Tail(paths))

RECURSIVE ExistingOf(_, _)
\* the directories for which existsSync(dir) holds
ExistingOf(dirs, existing) ==
    IF dirs = <<>> THEN <<>>
    ELSE (IF Head(dirs) \in existing THEN <<Head(dirs)>> ELSE <<>>)
         \o ExistingOf(Tail(dirs), existing)

wrapWithBwrap(config, requirements, existing, command, args, cwd) ==
    LET workDir == resolve(cwd, <<>>)
        readWritePaths == Dedupe(<<workDir>> \o normalizePaths(config.allowPaths, workDir), <<>>)
        readOnlyPaths ==
            Without(Dedupe(normalizePaths(config.readOnlyPaths, workDir)
                           \o normalizePaths(getRequirementPaths(requirements), workDir),
                           <<>>),
                    readWritePaths)
    IN  [command |-> <<"bwrap">>,
         args |-> <<(<<"--die-with-parent">>), (<<"--dev">>), (<<"/", "dev">>),
                    (<<"--proc">>), (<<"/", "proc">>)>>
                  \o (IF config.network = FALSE THEN <<(<<"--unshare-net">>)>> ELSE <<>>)
                  \o BindArgs("--ro-bind", ExistingOf(LINUX_SYSTEM_DIRS, existing))
                  \o BindArgs("--bind", readWritePaths)
                  \o BindArgs("--ro-bind", readOnlyPaths)
                  \o <<(<<"--chdir">>), workDir, (<<"--">>), command>>
                  \o args]

\* the path strings a configuration may list
\* the path strings a configuration may list: "  ", "../data", "/data",
\* "/data/" (the empty string is what follows the last slash) and "/etc"
SandboxPaths ==
    {<<" ">>, <<"..", "data">>, <<"/", "data">>, <<"/", "data", "">>, <<"/", "etc">>}

PathLists == UNION {[1..n -> SandboxPaths] : n \in 0..MaxPaths}

ReadOnlyLists == {<<>>} \cup {<<p>> : p \in SandboxPaths}

Requirements ==
    {[authPaths |-> <<>>, binaryPaths |-> <<>>, runtimePaths |-> <<>>],
     [authPaths |-> <<(<<"/", "home", ".agent">>)>>,
      binaryPaths |-> <<(<<"/", "data">>)>>,
      runtimePaths |-> <<(<<"/", "usr">>)>>]}

SandboxCwds == {<<"/", "work">>, <<"/", "data">>}

SandboxCommands ==
    {[command |-> <<"agent">>, args |-> <<>>],
     [command |-> <<"agent">>, args |-> <<(<<"--">>), (<<"--bind">>), (<<"/", "etc">>)>>]}

ExistingDirs == {{}, Range(LINUX_SYSTEM_DIRS)}

NoSandboxCall ==
    [config |-> [network |-> TRUE, allowPaths |-> <<>>, readOnlyPaths |-> <<>>],
     requirements |-> [authPaths |-> <<>>, binaryPaths |-> <<>>, runtimePaths |-> <<>>],
     existing |-> {}, command |-> <<>>, args |-> <<>>, cwd |-> <<>>]

NoWrapped == [command |-> <<>>, args |-> <<>>]

SandboxInit ==
    /\ sandboxCall = NoSandboxCall
    /\ wrapped = NoWrapped
    /\ sandboxPc = "idle"

\* wrapCommand in bwrap mode: wrapWithBwrap(command, args, {cwd})
WrapCommand(allowPaths, readOnlyPaths, network, requirements, existing, cmd, cwd) ==
    /\ SandboxFrame
    /\ sandboxPc = "idle"
    /\ sandboxCall' = [config |-> [network |-> network, allowPaths |-> allowPaths,
                                   readOnlyPaths |-> readOnlyPaths],
                       requirements |-> requirements, existing |-> existing,
                       command |-> cmd.command, args |-> cmd.args, cwd |-> cwd]
    /\ wrapped' = wrapWithBwrap(sandboxCall'.config, requirements, existing,
                                cmd.command, cmd.args, cwd)
    /\ sandboxPc' = "wrapped"

\* the wrapped command was spawned; the next command may be wrapped
WrappedSpawned ==
    /\ SandboxFrame
    /\ sandboxPc = "wrapped"
    /\ sandboxCall' = NoSandboxCall
    /\ wrapped' = NoWrapped
    /\ sandboxPc' = "idle"

SandboxNext ==
    \/ \E allowPaths \in (IF sandboxPc = "idle" THEN PathLists ELSE {}),
          readOnlyPaths \in ReadOnlyLists, network \in BOOLEAN,
          requirements \in Requirements, existing \in ExistingDirs,
          cmd \in SandboxCommands, cwd \in SandboxCwds :
          WrapCommand(allowPaths, readOnlyPaths, network, requirements,
                      existing, cmd, cwd)
    \/ WrappedSpawned
Init ==
    /\ OrderInit
    /\ ResolverInit
    /\ WorktreeInit
    /\ EngineInit
    /\ AgentInit
    /\ ResumeInit
    /\ ShutdownInit
    /\ ParallelInit
    /\ PolicyInit
    /\ FilesInit
    /\ EnvFilterInit
    /\ DiskInit
    /\ NameInit
    /\ ExtractInit
    /\ BeadsInit
    /\ InstInit
    /\ SandboxInit

SpecOrder == Init /\ [][OrderNext]_vars

SpecResolver == Init /\ [][ResolverNext]_vars

SpecWorktree == Init /\ [][WorktreeNext]_vars

-----------------------------------------------------------------------------
(***************************************************************************)
(* The run command: the engine of one process inside the session worktree. *)
(*                                                                         *)
(* run [--worktree [--resume]] --iterations n prepares the worktree, runs  *)
(* the engine in it, and at the end of the loop copies the logs back,      *)
(* merges or preserves, and cleans the session up.  Without --worktree the *)
(* engine runs in the main checkout.                                       *)
(***************************************************************************)
\* what the end of the loop means for the worktree
OutcomeFor(reason) ==
    CASE reason = "completed" -> "completed"
      [] reason = "max_iterations" -> "max_iterations"
      [] reason \in {"user_quit", "user_pause", "external_signal"} -> "interrupted"
      [] OTHER -> "aborted"

\* exit code of the process: 0 all tasks closed, 1 incomplete, 2 fatal
processExitCode ==
    CASE session.stopReason = "fatal_error" -> 2
      [] tasksClosed = tasksTotal -> 0
      [] OTHER -> 1

\* run --worktree [--resume]
RunPreparesWorktree(resume) ==
    /\ enginePc = "off"
    /\ PrepareWorktree(resume)

\* the engine starts in the worktree
RunStartsEngine(resume, n) ==
    /\ wtPc = "running"
    /\ Start(FALSE, resume, n)

\* run without --worktree: the engine starts in the main checkout
RunStartsInMainCheckout(n) ==
    /\ wtPc = "start"
    /\ Start(FALSE, FALSE, n)

RunSelectsTask ==
    /\ wtPc \in {"start", "running"}
    /\ SelectTask

\* the agent works in the worktree: it writes the iteration log and commits
RunAgentCommits ==
    /\ enginePc = "agent"
    /\ AgentCommits

RunAgentFinishes(sentinel, exitCode) ==
    /\ wtPc \in {"start", "running"}
    /\ AgentFinishes(sentinel, exitCode)

RunStopEvent(reason) ==
    /\ wtPc \in {"start", "running"}
    /\ StopEvent(reason)

\* while the agent works somebody commits to the branch of the main checkout
RunMainBranchMoves(conflicts) ==
    /\ enginePc = "agent"
    /\ MainBranchMoves(conflicts)

\* the loop has exited: the worktree part of the end of the run begins
RunSessionEnds ==
    /\ enginePc = "exited"
    /\ SessionEnds(OutcomeFor(session.stopReason))

\* session.json, the lock, exit: after the worktree was merged or preserved
RunCallerCleanup ==
    /\ wtPc \in {"start", "preserved", "done"}
    /\ CallerCleanup

\* the process has exited; the next run may begin
RunEnds ==
    /\ enginePc = "off"
    /\ RunAgain

RunProgramNext ==
    \/ RunSelectsTask
    \/ RunAgentCommits
    \/ RunSessionEnds
    \/ CallerDecides
    \/ MergeBegin
    \/ MergeFastForward
    \/ MergeCommit
    \/ MergeCleanup
    \/ RunCallerCleanup
    \/ RunEnds

RunNext ==
    \/ \E resume \in BOOLEAN : RunPreparesWorktree(resume)
    \/ \E resume \in BOOLEAN, n \in 1..MaxBudget : RunStartsEngine(resume, n)
    \/ \E done \in BOOLEAN : RunAgentFinishes(done, IF done THEN 0 ELSE 1)
    \/ RunStopEvent("user_quit")
    \/ \E c \in BOOLEAN : RunMainBranchMoves(c)
    \/ MergeAbort
    \/ RunProgramNext
\* the run command with the mock agent, which always emits the sentinel and
\* exits with 0, a budget that covers every task, nobody stopping the run and
\* no conflicting commit on the main checkout
MockRunNext ==
    \/ \E resume \in BOOLEAN : RunPreparesWorktree(resume)
    \/ \E resume \in BOOLEAN, n \in tasksTotal..(tasksTotal + MaxBudget - 1) :
          RunStartsEngine(resume, n)
    \/ \E n \in tasksTotal..(tasksTotal + MaxBudget - 1) :
          RunStartsInMainCheckout(n)
    \/ RunAgentFinishes(TRUE, 0)
    \/ RunMainBranchMoves(FALSE)
    \/ RunProgramNext

SpecRun == Init /\ [][RunNext]_vars

\* the steps of the program and of the mock agent are taken when they can be;
\* nothing is assumed of the user
SpecMockRun ==
    Init /\ [][MockRunNext]_vars
         /\ WF_vars(RunProgramNext \/ RunAgentFinishes(TRUE, 0))
Spec == Init /\ [][Next]_vars

SpecAgent == Init /\ [][AgentNext]_vars

SpecResume == Init /\ [][ResumeNext]_vars

SpecShutdown == Init /\ [][ShutdownNext]_vars

SpecParallel == Init /\ [][ParallelNext]_vars

SpecPolicy == Init /\ [][PolicyNext]_vars

SpecFiles == Init /\ [][FilesNext]_vars

SpecEnvFilter == Init /\ [][EnvFilterNext]_vars

SpecSandbox == Init /\ [][SandboxNext]_vars

SpecInst == Init /\ [][InstNext]_vars

SpecBeads == Init /\ [][BeadsNext]_vars

SpecExtract == Init /\ [][ExtractNext]_vars

SpecName == Init /\ [][NameNext]_vars

SpecDisk == Init /\ [][DiskNext]_vars

-----------------------------------------------------------------------------
(***************************************************************************)
(* Properties of the dotted-child ordering (SpecOrder)                     *)
(***************************************************************************)
\* how many times id occurs in the list s
CountOf(s, id) == Cardinality({i \in 1..Len(s) : s[i] = id})

\* an id of the form <prefix>.<number>
IsDotted(id) == CHILD_TASK_ID_PATTERN(id)

\* C8: the ordering routine is idempotent: ordering an ordered listing again
\* gives the same listing, element for element.
C8_SortIdempotent ==
    orderPc = "resorted" => sortedTwice = sortedOnce

\* a listing the first pass reordered has gone through the second pass
C8_Witness ==
    /\ orderPc = "resorted"
    /\ sortedOnce # taskList
    /\ Len(taskList) = MaxTasks

\* C9: the output is a permutation of the input in which every id that is not
\* of the form <prefix>.<number> keeps its index and the dotted ids occupy
\* exactly the indices dotted ids had.
C9_PermutationInPlace ==
    orderPc # "build" =>
        /\ Len(sortedOnce) = Len(taskList)
        /\ \A id \in TaskIds : CountOf(sortedOnce, id) = CountOf(taskList, id)
        /\ \A i \in 1..Len(taskList) :
              /\ ~IsDotted(taskList[i]) => sortedOnce[i] = taskList[i]
              /\ IsDotted(taskList[i]) <=> IsDotted(sortedOnce[i])

\* a plain id sits between two dotted ids that the routine swapped
C9_Witness ==
    /\ orderPc = "sorted"
    /\ Len(taskList) = 3
    /\ IsDotted(taskList[1]) /\ ~IsDotted(taskList[2]) /\ IsDotted(taskList[3])
    /\ sortedOnce[1] = taskList[3]
    /\ sortedOnce[3] = taskList[1]
    /\ taskList[1] # taskList[3]

\* C10: in the output, two dotted ids with the same prefix stand in ascending
\* order of their numeric suffix, whatever their order in the input.
C10_AscendingWithinPrefix ==
    orderPc # "build" =>
        \A i, j \in 1..Len(sortedOnce) :
            (/\ i < j
             /\ IsDotted(sortedOnce[i])
             /\ IsDotted(sortedOnce[j])
             /\ parseChildTaskId(sortedOnce[i]).prefix = parseChildTaskId(sortedOnce[j]).prefix)
            => parseChildTaskId(sortedOnce[i]).issueNumber
                   <= parseChildTaskId(sortedOnce[j]).issueNumber

\* a.10 was listed before a.2 and comes out after it
C10_Witness ==
    /\ orderPc = "sorted"
    /\ \E i, j \in 1..Len(taskList) :
          /\ i < j
          /\ taskList[i] = <<"a", ".", "1", "0">>
          /\ taskList[j] = <<"a", ".", "2">>
    /\ \E i, j \in 1..Len(sortedOnce) :
          /\ i < j
          /\ sortedOnce[i] = <<"a", ".", "2">>
          /\ sortedOnce[j] = <<"a", ".", "1", "0">>

-----------------------------------------------------------------------------
(***************************************************************************)
(* Properties of the session worktree (SpecWorktree)                       *)
(***************************************************************************)
\* C4: after an aborted or interrupted session, and after a merge-back that
\* reports failure, the worktree directory and the session branch both exist;
\* after mergeSessionWorktree reports success neither exists.
C4_WorktreeLifecycle ==
    /\ (wtPc \in {"ended", "preserved"} /\ outcome \in {"aborted", "interrupted"})
           => (repo.wtDir /\ repo.branch)
    /\ (wtPc = "done" /\ mergeResult = "failure")
           => (repo.wtDir /\ repo.branch)
    /\ (wtPc = "done" /\ mergeResult = "success")
           => (~repo.wtDir /\ ~repo.wtReg /\ ~repo.branch)

\* a session that committed was merged back and cleaned up
C4_Witness ==
    /\ wtPc = "done"
    /\ mergeResult = "success"
    /\ outcome = "completed"
    /\ repo.diverged = FALSE
    /\ repo.mergedInto # {}
    /\ ~repo.wtDir
    /\ ~repo.branch

-----------------------------------------------------------------------------
(***************************************************************************)
(* Properties of the conflict resolver (SpecResolver)                      *)
(***************************************************************************)
\* C7: for a conflict where at least one of ours/theirs is whitespace-only, or
\* both are byte-equal, the resolver completes without spawning an agent.
C7_FastPathTotality ==
    (/\ resolverPc # "idle"
     /\ \/ TrimIsEmpty(conflict.oursContent)
        \/ TrimIsEmpty(conflict.theirsContent)
        \/ conflict.oursContent = conflict.theirsContent)
    => agentSpawned = 0

-----------------------------------------------------------------------------
\* C1: a task is admitted to an iteration only if, in the tracker listing
\* taken at that scheduling pass, it is open or in progress and every one of
\* its dependencies is closed; TEST-004 never runs while TEST-001 or TEST-002
\* is not closed.
C1_DependencyGatedAdmission ==
    enginePc = "agent" =>
        /\ current \in Tasks
        /\ listing[current] \in {"open", "in_progress"}
        /\ \A d \in Dependencies(current) : listing[d] = "closed"
        /\ current = "TEST-004" =>
              /\ taskStatus["TEST-001"] = "closed"
              /\ taskStatus["TEST-002"] = "closed"

\* TEST-004, which has two dependencies, is running
C1_Witness ==
    /\ enginePc = "agent"
    /\ current = "TEST-004"
    /\ taskStatus["TEST-005"] = "open"

\* C2: after the run loop has exited and the caller has cleaned up,
\* session.json is gone iff stopReason is completed and every task is closed;
\* after any other exit it is still there.
C2_SessionFileDeletedOnlyOnCompletion ==
    exitDecision # "none" =>
        /\ (exitDecision = "deleted") <=>
              (session.stopReason = "completed" /\ tasksClosed = tasksTotal)
        /\ sessionFile <=> (exitDecision = "kept")

C5_SuccessIffSentinelAndExitZero ==
    lastIter.statusAfter # "none" =>
        /\ lastIter.success <=> (lastIter.sentinel /\ lastIter.exitCode = 0)
        /\ (lastIter.statusAfter = "closed") <=> lastIter.success
        /\ ~lastIter.success => lastIter.statusAfter \in {"open", "in_progress"}

\* the sentinel was printed by an agent that exited non-zero
C5_Witness ==
    /\ lastIter.sentinel
    /\ lastIter.exitCode = 1
    /\ lastIter.statusAfter = "in_progress"

-----------------------------------------------------------------------------
\* C11: the argument list the agent is spawned with is the default flags,
\* then the adapter's buildArgs, then the engine's flags, so every engine
\* flag comes after every other flag, and a --model the engine injects is
\* the model the command line selects whatever --model the adapter built.
C11_EngineFlagsLast ==
    agentPc = "executed" =>
        LET d == Len(defaultFlags)
            b == Len(buildArgs(agentModel))
            f == Len(flags)
        IN  /\ Len(allArgs) = d + b + f
            /\ \A i \in 1..d : allArgs[i] = defaultFlags[i]
            /\ \A i \in 1..b : allArgs[d + i] = buildArgs(agentModel)[i]
            /\ \A i \in 1..f : allArgs[d + b + i] = flags[i]
            /\ resolved.model # "none" => EffectiveModel(allArgs) = resolved.model

\* the adapter built --model sonnet and the engine injected --model opus
C11_Witness ==
    /\ agentPc = "executed"
    /\ defaultFlags = <<"--verbose">>
    /\ agentModel = "sonnet"
    /\ resolved.model = "opus"
    /\ allArgs = <<"--verbose", "--model", "sonnet", "--extra-flag", "--model", "opus">>

\* the model the claim expects: the first of task model, CLI model that is
\* set and valid, else the agent default
C12_ExpectedModel ==
    IF taskModel # "none" /\ validateModel(taskModel) = "none" THEN taskModel
    ELSE IF cliModel # "none" /\ validateModel(cliModel) = "none" THEN cliModel
    ELSE "none"

\* C12: the resolved model is the task's model when set and valid, else the
\* CLI model, else the agent default; an invalid model at either level is
\* warned about and skipped, never used.
C12_ModelResolution ==
    agentPc \in {"resolved", "flagged", "executed"} =>
        /\ resolved.model = C12_ExpectedModel
        /\ resolved.model # "none" => validateModel(resolved.model) = "none"
        /\ (taskModel # "none" /\ validateModel(taskModel) # "none")
              => taskModel \in modelWarnings

-----------------------------------------------------------------------------
\* C13: resolveSession returns a session only when both its registry entry
\* and its session file exist; otherwise it returns none and points the
\* user to --cleanup or to run.
C13_ResolveNeedsRegistryAndFile ==
    resumePc = "resolved" =>
        /\ resumeResult.session # NoSession =>
              /\ resumeResult.session.registryEntry \in registry
              /\ resumeResult.session.cwd \in sessionFiles
        /\ (resumeResult.session = NoSession /\ registry # {}) =>
              resumeResult.error \in
                 {"session file is missing: --cleanup",
                  "Session file not found: --cleanup",
                  "No session to resume: ralph-tui run",
                  "not found in registry",
                  "Multiple sessions match prefix"}

\* the entries the given id names exactly, and those it is a prefix of
C14_Exact == {e \in registry : e.sessionId = resumeArgs.sessionId}
C14_Prefixed == {e \in registry : startsWith(e.sessionId, resumeArgs.sessionId)}

\* C14: with an id, the exact match is selected if there is one, else the
\* only entry the id is a prefix of; no or several prefix matches select
\* nothing; without an id the session of the current cwd is selected.
C14_ExactThenUniquePrefix ==
    resumePc = "resolved" =>
        LET selected == resumeResult.session
        IN  IF resumeArgs.sessionId # NoSessionId
            THEN /\ selected # NoSession =>
                       /\ selected.registryEntry \in C14_Prefixed
                       /\ selected.cwd = selected.registryEntry.cwd
                       /\ \/ selected.registryEntry \in C14_Exact
                          \/ C14_Exact = {} /\ Cardinality(C14_Prefixed) = 1
                 /\ (C14_Exact = {} /\ Cardinality(C14_Prefixed) # 1) =>
                       selected = NoSession
                 /\ \A e \in registry :
                       (e.cwd \in sessionFiles
                          /\ (e \in C14_Exact
                                \/ (C14_Exact = {} /\ C14_Prefixed = {e})))
                       => selected.registryEntry = e
            ELSE /\ selected # NoSession => selected.cwd = resumeArgs.cwd
                 /\ \A e \in registry :
                       (e.cwd = resumeArgs.cwd /\ e.cwd \in sessionFiles)
                       => selected = [cwd |-> e.cwd, registryEntry |-> e]

\* an id that is a prefix of two registered ids selected nothing
C14_Witness ==
    /\ resumePc = "resolved"
    /\ resumeArgs.sessionId = <<"a">>
    /\ Cardinality(C14_Prefixed) = 2
    /\ \A e \in C14_Prefixed : e.cwd \in sessionFiles
    /\ resumeResult.error = "Multiple sessions match prefix"

\* C15: the tracker-mismatch warning is emitted iff the engine loaded no
\* task and the session file records at least one.
C15_MismatchWarningIff ==
    resumePc \in {"initialized", "ended"} =>
        (mismatchWarned <=> (engineTaskCount = 0 /\ sessionKnownTaskCount > 0))

\* the engine loaded tasks, fewer than the session knew: no warning
C15_Witness ==
    /\ resumePc = "initialized"
    /\ engineTaskCount = 1
    /\ sessionKnownTaskCount = 2
    /\ ~mismatchWarned

-----------------------------------------------------------------------------
\* C17: after a user quit the persisted stop reason is user_quit, the
\* session file exists (so that a resume finds the session) and this
\* process's lock is released.
C17_UserQuitKeepsSession ==
    (exitDecision # "none" /\ session.stopReason = "user_quit") =>
        /\ session.status = "interrupted"
        /\ lock # 1
        /\ sessionFile

-----------------------------------------------------------------------------
-----------------------------------------------------------------------------
\* position of a merged task in the merge order
C19_MergePosition(t) == CHOOSE i \in 1..Len(mergeOrder) : mergeOrder[i] = t

C20_OnCycle(t) ==
    \E n \in 1..Cardinality(ParallelTasks) :
       \E path \in [1..n -> ParallelTasks] :
          /\ path[1] \in dependencyGraph[t]
          /\ \A i \in 1..(n - 1) : path[i + 1] \in dependencyGraph[path[i]]
          /\ path[n] = t

\* C20: a task inside a dependency cycle is never admitted to a worker, is
\* reported blocked once a scheduling pass has run, and the cycle is logged
\* at most once.
C20_CycleTasksBlocked ==
    /\ \A w \in Workers :
          workers[w].phase # "idle" => ~C20_OnCycle(workers[w].task)
    /\ \A t \in Merged : ~C20_OnCycle(t)
    /\ cycleLogs <= 1
    /\ (parallelPc = "ended" \/ \E w \in Workers : workers[w].phase # "idle") =>
          /\ \A t \in ParallelTasks :
                C20_OnCycle(t) <=> parallelStatus[t] = "blocked"
          /\ cycleLogs = 1 <=> \E t \in ParallelTasks : C20_OnCycle(t)

\* T1 and T2 depend on each other; T3 ran and the session ended
C20_Witness ==
    /\ dependencyGraph = [t \in ParallelTasks |->
                             IF t = "T1" THEN {"T2"}
                             ELSE IF t = "T2" THEN {"T1"} ELSE {}]
    /\ parallelPc = "ended"
    /\ mergeOrder = <<"T3">>
    /\ parallelStatus = [t \in ParallelTasks |->
                            IF t = "T3" THEN "closed" ELSE "blocked"]
    /\ cycleLogs = 1

-----------------------------------------------------------------------------
(***************************************************************************)
(* Properties of the error-handling policy (SpecPolicy)                    *)
(***************************************************************************)
\* a step in which the iteration under way fails
C21_Failure ==
    /\ policyPc = "agent"
    /\ policyClosed' = policyClosed
    /\ <<retryCount, failedThisSession, policyStopReason>>' #
           <<retryCount, failedThisSession, policyStopReason>>

\* C21: when an iteration fails, under retry the same task is run again, and
\* no task is re-run more than maxRetries times; under skip the task is
\* marked failed for this session and no task so marked is selected again in
\* the session; under abort the session stops with fatal_error, and no
\* iteration is under way in a session that has stopped.
C21_ErrorStrategies ==
    /\ [](errorHandling.strategy = "retry" =>
             /\ retryCount <= errorHandling.maxRetries
             /\ \A t \in PolicyTasks :
                   runsOfTask[t] <= 1 + errorHandling.maxRetries)
    /\ [](errorHandling.strategy # "retry" =>
             \A t \in PolicyTasks : runsOfTask[t] <= 1)
    /\ [](policyPc = "agent" =>
             policyStopReason = "none" /\ policyTask \notin failedThisSession)
    /\ [][C21_Failure =>
             CASE errorHandling.strategy = "abort" ->
                     policyStopReason' = "fatal_error" /\ policyPc' = "stopped"
               [] errorHandling.strategy = "skip" ->
                     policyTask \in failedThisSession' /\ policyPc' = "select"
               [] OTHER ->
                     \/ policyTask' = policyTask /\ policyPc' = "agent"
                     \/ /\ retryCount = errorHandling.maxRetries
                        /\ policyTask \in failedThisSession']_vars
    /\ [][policyPc = "select" /\ policyPc' = "agent" =>
             policyTask' \notin failedThisSession]_vars

\* a task was re-run maxRetries times and failed again, and the session went
\* on to another task
C21_Witness ==
    /\ errorHandling.strategy = "retry"
    /\ errorHandling.maxRetries = MaxRetries
    /\ \E t \in failedThisSession : runsOfTask[t] = 1 + MaxRetries
    /\ policyPc = "agent"

-----------------------------------------------------------------------------
(***************************************************************************)
(* Properties of the tracker data copy (SpecFiles)                         *)
(***************************************************************************)
\* path p lies under directory dir
C24_Under(dir, p) ==
    Len(p) >= Len(dir) /\ SubSeq(p, 1, Len(dir)) = dir

\* the PRD the call names, as an absolute path
C24_Source ==
    pathResolve(copyCall.cwd,
                IF copyCall.prdPath = NoPrdPath THEN DefaultPrdPath
                ELSE copyCall.prdPath)

\* the directory external PRDs are rebased into
C24_ExternalDir == copyCall.worktreePath \o <<".ralph-tui", "external-prd">>

\* the call has returned: the PRD path it reports is under the worktree and
\* holds the PRD's content if the PRD exists, and every file there was
\* before the call, the PRD included, is unchanged unless it is that copy
C24_CopyInsideSourceIntact ==
    (filesPc = "copied" /\ copyCall.trackerPlugin = "json") =>
        /\ C24_Under(copyCall.worktreePath, copyReturn.jsonPrdPath)
        /\ C24_Source \in DOMAIN fsBefore =>
              /\ copyReturn.jsonPrdPath \in DOMAIN fsFiles
              /\ fsFiles[copyReturn.jsonPrdPath] = fsBefore[C24_Source]
              /\ fsFiles[C24_Source] = fsBefore[C24_Source]
        /\ \A p \in DOMAIN fsBefore :
              p # copyReturn.jsonPrdPath => fsFiles[p] = fsBefore[p]

C25_WorktreeLogs ==
    {p \in DOMAIN fsBefore :
        /\ C24_Under(copyCall.worktreePath \o <<".ralph-tui", "iterations">>, p)
        /\ basename(p) \in {"iteration-001.log", "iteration-002.log"}}

\* where the main directory keeps a log of that name
C25_InMain(p) ==
    copyCall.cwd \o <<".ralph-tui", "iterations", basename(p)>>

\* C25: after preserveIterationLogs every *.log file of the worktree's
\* iterations directory has its name in the main directory's, with the
\* worktree's content if the name was new there; nothing else is created,
\* every file there was before the call is unchanged, and a second call
\* leaves the file system as the first one left it.
C25_LogsCopiedNeverOverwritten ==
    /\ filesPc \in {"preserved", "preserved again"} =>
          /\ \A p \in DOMAIN fsBefore : fsFiles[p] = fsBefore[p]
          /\ DOMAIN fsFiles =
                DOMAIN fsBefore \cup {C25_InMain(p) : p \in C25_WorktreeLogs}
          /\ \A p \in C25_WorktreeLogs :
                C25_InMain(p) \notin DOMAIN fsBefore =>
                   fsFiles[C25_InMain(p)] = fsBefore[p]
    /\ filesPc = "preserved again" => fsFiles = fsOnce

\* two calls were made where one log was new to the main directory and
\* another met a file of its name there
C25_Witness ==
    /\ filesPc = "preserved again"
    /\ \E p \in C25_WorktreeLogs : C25_InMain(p) \notin DOMAIN fsBefore
    /\ \E p \in C25_WorktreeLogs :
          /\ C25_InMain(p) \in DOMAIN fsBefore
          /\ fsFiles[C25_InMain(p)] # fsFiles[p]

-----------------------------------------------------------------------------
(***************************************************************************)
(* Properties of the environment filter (SpecEnvFilter)                    *)
(***************************************************************************)
\* name matches a pattern that is a literal name or "*" and a suffix
C26_Matches(pattern, name) ==
    IF Head(pattern) = "*"
    THEN /\ Len(name) >= Len(pattern) - 1
         /\ SubSeq(name, Len(name) - Len(pattern) + 2, Len(name)) = Tail(pattern)
    ELSE name = pattern

C26_Excluded(name) ==
    \E p \in {<<"*", "_", "API", "_", "KEY">>, <<"*", "_", "SECRET", "_", "KEY">>,
              <<"*", "_", "SECRET">>} \cup envExclude : C26_Matches(p, name)

C26_Passed(name) == \E p \in envPassthrough : C26_Matches(p, name)

C26_Names(list) == {list[i] : i \in DOMAIN list}

C26_Sorted(list) ==
    \A i, j \in DOMAIN list :
        i < j => \E a, b \in DOMAIN SortedEnvNames :
                    a < b /\ SortedEnvNames[a] = list[i] /\ SortedEnvNames[b] = list[j]

\* C26: in the report of an environment, a variable is blocked iff its name
\* matches an exclusion pattern (the defaults or a configured one) and no
\* passthrough pattern, allowed iff it matches an exclusion pattern and a
\* passthrough pattern, and in neither list otherwise; the two lists have
\* no name in common and each is sorted.
C26_BlockedAllowedPartition ==
    envFilterPc = "reported" =>
        /\ C26_Names(exclusionReport.blocked) =
              {n \in C26_Names(processEnv) : C26_Excluded(n) /\ ~C26_Passed(n)}
        /\ C26_Names(exclusionReport.allowed) =
              {n \in C26_Names(processEnv) : C26_Excluded(n) /\ C26_Passed(n)}
        /\ C26_Names(exclusionReport.blocked)
              \cap C26_Names(exclusionReport.allowed) = {}
        /\ C26_Sorted(exclusionReport.blocked)
        /\ C26_Sorted(exclusionReport.allowed)

\* a report with two blocked variables that the environment listed in the
\* other order, a variable let through by a glob, and one no pattern matches
C26_Witness ==
    /\ envFilterPc = "reported"
    /\ Len(exclusionReport.blocked) >= 2
    /\ SelectSeq(processEnv, LAMBDA n : n \in C26_Names(exclusionReport.blocked))
          # exclusionReport.blocked
    /\ \E n \in C26_Names(exclusionReport.allowed) : n \notin envPassthrough
-----------------------------------------------------------------------------
(***************************************************************************)
(* mergeSessionWorktree: the order of the merge attempts                   *)
(***************************************************************************)
C27_Ran(i, command) == i \in 1..Len(gitLog) /\ gitLog[i].command = command

C27_Failed(i, command) == C27_Ran(i, command) /\ ~gitLog[i].ok

\* C27: mergeSessionWorktree tries the fast-forward merge before any other
\* merge command, tries the merge commit (--no-edit) only right after a
\* fast-forward that failed, and calls merge --abort only right after a merge
\* commit that failed; whenever it returns a failure the worktree directory,
\* its registration and the session branch are all still there and no merge
\* is in progress in the main checkout.
C27_MergeAttemptsInOrder ==
    /\ \A i \in 1..Len(gitLog) :
          /\ C27_Ran(i, "merge --ff-only") =>
                \A j \in 1..(i - 1) : gitLog[j].command = "rev-parse --abbrev-ref HEAD"
          /\ C27_Ran(i, "merge --no-edit") => C27_Failed(i - 1, "merge --ff-only")
          /\ C27_Ran(i, "merge --abort") => C27_Failed(i - 1, "merge --no-edit")
    /\ (wtPc = "done" /\ mergeResult = "failure") =>
          /\ repo.wtDir /\ repo.wtReg /\ repo.branch
          /\ ~repo.merging

\* both merges failed, the merge was aborted and the failure returned
C27_Witness ==
    /\ wtPc = "done"
    /\ mergeResult = "failure"
    /\ C27_Failed(2, "merge --ff-only")
    /\ C27_Failed(3, "merge --no-edit")
    /\ C27_Ran(4, "merge --abort")

\* C28: the session branch is merged into the branch HEAD of the main
\* checkout named when the session started, and into no other branch,
\* whatever the main checkout has checked out when the merge runs.
C28_MergedIntoStartBranchOnly == repo.mergedInto \subseteq {startBranch}
-----------------------------------------------------------------------------
(***************************************************************************)
(* prepareSessionWorktree: the returned mode                               *)
(***************************************************************************)
\* the step in which prepareSessionWorktree returned
C29_Prepared == wtPc = "start" /\ wtPc' = "running"

\* C29: with resume the mode is reused when the session branch is checked out
\* in a worktree, attached when the branch exists but is checked out nowhere,
\* and created when the branch does not exist; in the modes reused and
\* attached the branch that existed is still there with its commits, and the
\* worktree holds it; without resume the mode is always created.
C29_ResumeModes ==
    [][C29_Prepared =>
         /\ (wtResume' /\ repo.wtReg) => wtMode' = "reused"
         /\ (wtResume' /\ repo.branch /\ ~repo.wtReg) => wtMode' = "attached"
         /\ (wtResume' /\ ~repo.branch) => wtMode' = "created"
         /\ ~wtResume' => wtMode' = "created"
         /\ wtMode' \in {"reused", "attached"} =>
               /\ repo.branch /\ repo'.branch
               /\ repo'.ahead = repo.ahead
               /\ repo'.mergedInto = repo.mergedInto
               /\ repo'.wtReg /\ repo'.wtDir]_vars

\* a resumed run attached a new worktree to the branch that holds the commits
\* of the earlier run
C29_Witness ==
    /\ wtPc = "running"
    /\ wtResume
    /\ wtMode = "attached"
    /\ repo.ahead
-----------------------------------------------------------------------------
(***************************************************************************)
(* iteration logs and the removal of the session worktree                  *)
(***************************************************************************)
\* a step of the program, not of the user between two runs
C30_ProgramStep == wtPc' # wtPc

\* the k-th iteration log of the worktree is on disk before the step and gone
\* after it
C30_LogRemoved(k) ==
    /\ IterationLogPath(SessionWorktreePath, k) \in DOMAIN repo.files
    /\ IterationLogPath(SessionWorktreePath, k) \notin DOMAIN repo'.files

\* C30: whenever the program removes the session worktree, every iteration
\* log of the worktree is already in the iterations directory of the main
\* working directory.
C30_LogsCopiedBeforeRemoval ==
    [][C30_ProgramStep =>
         \A k \in 1..Len(IterationLogNames) :
            C30_LogRemoved(k) =>
               IterationLogPath(MainCwd, k) \in DOMAIN repo.files]_vars
-----------------------------------------------------------------------------
(***************************************************************************)
(* the iteration budget and the session worktree                           *)
(***************************************************************************)
\* the step in which a resumed run got its worktree after a run that had
\* spent its budget
C22_ResumedAfterBudget ==
    /\ wtPc = "start" /\ outcome = "max_iterations"
    /\ wtPc' = "running" /\ wtResume'

-----------------------------------------------------------------------------
(***************************************************************************)
(* the run with the mock agent ends completed                              *)
(***************************************************************************)
C23_Stopped ==
    /\ enginePc = "off"
    /\ session.stopReason = "completed"
    /\ \A t \in Tasks : taskStatus[t] = "closed"
    /\ processExitCode = 0
    /\ ~repo.wtDir /\ ~repo.wtReg /\ ~repo.branch

-----------------------------------------------------------------------------
(***************************************************************************)
(* worktree creation and free disk space                                   *)
(***************************************************************************)
\* prepareSessionWorktree had a worktree to create or to attach
C31_CreationAsked ==
    /\ diskPc = "prepared"
    /\ ~(diskProbe.resume /\ diskRepo.wtReg)

C31_Refused == diskPrepared.error = "Insufficient disk space"

\* C31: when a worktree is to be created, the creation is refused with the
\* insufficient-disk-space error, leaving the repository and the file system
\* as they were, unless the free space is at least 500 MiB or neither statfs
\* nor df gave a number; and it is refused in no other case.
C31_RefusedBelowMinimum ==
    C31_CreationAsked =>
        /\ C31_Refused => diskPrepared.repo = diskRepo /\ ~diskPrepared.ok
        /\ ~C31_Refused <=>
              \/ diskProbe.free >= DEFAULT_MIN_FREE_DISK_SPACE
              \/ ~diskProbe.statfs.known /\ ~diskProbe.dfKb.known
-----------------------------------------------------------------------------
(***************************************************************************)
(* the sanitized session name                                              *)
(***************************************************************************)
C32_RepeatedSeparator(s) ==
    \E i \in 1..(Len(s) - 1) : s[i] = s[i + 1] /\ s[i] \in {"/", "-", "."}

\* C32: whatever the input, the sanitized session name is non-empty, holds no
\* white space, control character or git-invalid character, repeats no
\* separator, neither starts nor ends with '.', '/' or '-', and does not end
\* with .lock.
C32_SanitizedNameValid ==
    namePc = "derived" =>
        /\ sessionName # <<>>
        /\ \A i \in 1..Len(sessionName) :
              sessionName[i] \notin {" ", "TAB", "CTRL", "~"}
        /\ ~C32_RepeatedSeparator(sessionName)
        /\ sessionName[1] \notin {".", "/", "-"}
        /\ sessionName[Len(sessionName)] \notin {".", "/", "-"}
        /\ ~(Len(sessionName) >= 2
             /\ SubSeq(sessionName, Len(sessionName) - 1, Len(sessionName))
                   = <<".", "lock">>)

-----------------------------------------------------------------------------
\* C33: tryFastPathResolution returns exactly theirs when ours is empty
\* ignoring whitespace and theirs is not, exactly ours when theirs is empty
\* ignoring whitespace and ours is not, exactly ours when both sides are
\* identical, and null in every other case; a result that is not null is
\* always equal to one of the two sides.
C33_FastPathTried == aiResolver = "callback" /\ resolverPc \in {"agent", "done"}

-----------------------------------------------------------------------------
\* C35: extractResolvedContent strips a single outer triple-backquote fence,
\* with an optional language tag, when the trimmed agent output is wholly
\* enclosed in one, leaves output without such a fence unchanged apart from
\* trimming, and rejects empty output: it returns null for empty or
\* whitespace-only output and never returns an empty string.
C35_IsTag(s) == \A i \in 1..Len(s) : s[i] = "x"

\* t is an opening fence line with the tag, the body, and a closing fence line
C35_Fenced(t, tag, body) ==
    /\ C35_IsTag(tag)
    /\ t = <<"FENCE">> \o tag \o <<"\n">> \o body \o <<"\n", "FENCE">>

C35_OrNull(s) == IF s = <<>> THEN Null ELSE s

-----------------------------------------------------------------------------
\* C34: for a conflict that is not fast-pathable, the resolver returns
\* failure (null) and never throws whenever the agent is unavailable, the
\* agent execution throws, its status is not completed, its exit code is
\* non-zero, or its output is empty or invalid; it returns content only when
\* the agent completed with exit code zero and non-empty extracted output.
C34_AgentPathReturned ==
    /\ aiResolver = "callback"
    /\ resolverPc = "done"
    /\ tryFastPathResolution(conflict) = Null

C34_AgentFailed ==
    \/ ~agentRun.available
    \/ agentRun.throws
    \/ agentRun.status # "completed"
    \/ agentRun.exitCode # 0
    \/ TrimIsEmpty(agentRun.stdout)

C34_FailureIsNull ==
    C34_AgentPathReturned =>
        /\ ~resolverThrew
        /\ C34_AgentFailed => resolution = Null
        /\ resolution # Null =>
              /\ ~C34_AgentFailed
              /\ resolution # <<>>
              /\ resolution = extractResolvedContent(agentRun.stdout)

C34_Witness ==
    /\ C34_AgentPathReturned
    /\ agentRun.status = "completed"
    /\ agentRun.exitCode = 1
    /\ ~TrimIsEmpty(agentRun.stdout)
    /\ resolution = Null

-----------------------------------------------------------------------------
\* C36: with conflictResolution.enabled = false, every conflict that is not
\* fast-pathable fails immediately without an agent being spawned, while
\* fast-pathable conflicts are still resolved by the fast path.
C36_Disabled == resolverConfig.conflictResolution = "false"

C36_DisabledKeepsFastPathOnly ==
    C36_Disabled =>
        /\ agentSpawned = 0
        /\ resolverPc = "done" =>
              IF tryFastPathResolution(conflict) = Null
              THEN resolution = Null
              ELSE resolution = tryFastPathResolution(conflict)

\* the two ways the statement fails: the agent runs although the top-level
\* setting is false, and a fast-pathable conflict fails when no callback is set
C36_AgentSpawnedWhenDisabled == C36_Disabled /\ agentSpawned > 0

C36_FastPathLostWhenDisabled ==
    /\ C36_Disabled
    /\ aiResolver = "null"
    /\ resolverPc = "done"
    /\ tryFastPathResolution(conflict) # Null
    /\ resolution = Null

-----------------------------------------------------------------------------
\* C37: for the beads, beads-rust and beads-bv trackers, copyTrackerData runs
\* the tracker sync before copying, still copies when the sync fails, and
\* copies .beads/ into the worktree such that no file or directory whose name
\* matches *.db, *.db-shm, *.db-wal, *.lock, *.tmp or last-touched is copied,
\* at any depth below .beads/.
C37_TargetDir == beadsCall.worktreePath \o <<".beads">>

C37_SourceDir == beadsCall.cwd \o <<".beads">>

C37_Below(dir, p) == Len(p) > Len(dir) /\ SubSeq(p, 1, Len(dir)) = dir

\* the names of the files and directories of the worktree's .beads directory
C37_CopiedNames ==
    UNION {{p[i] : i \in (Len(C37_TargetDir) + 1)..Len(p)} :
              p \in {q \in DOMAIN beadsFs : C37_Below(C37_TargetDir, q)}}

C37_SyncedFirst ==
    /\ beadsSync.command = (IF beadsCall.trackerPlugin = "beads-rust" THEN "br" ELSE "bd")
    /\ \A p \in DOMAIN beadsFs :
          (C37_Below(C37_TargetDir, p) /\ Len(p) = Len(C37_TargetDir) + 1) =>
              beadsFs[p] = beadsFs[C37_SourceDir \o <<p[Len(p)]>>]

C37_CopiedWhenSyncFails ==
    (~beadsSync.ok /\ C37_SourceDir \o <<"issues.jsonl">> \in DOMAIN beadsBefore) =>
        C37_TargetDir \o <<"issues.jsonl">> \in DOMAIN beadsFs

C37_SyncedCopyWithoutExcluded ==
    beadsPc = "copied" =>
        /\ C37_SyncedFirst
        /\ C37_CopiedWhenSyncFails
        /\ \A name \in C37_CopiedNames : ~isBeadsExcluded(name)

-----------------------------------------------------------------------------
\* C38: once initialize has completed, after any sequence and interleaving
\* of selectTab(i) for any integer i, selectNextTab, selectPreviousTab,
\* refresh, disconnectAll and client events, the local tab is still the first
\* tab, no two tabs share an alias, and 0 <= selectedIndex < tabs.length, so
\* getSelectedTab never returns undefined; selectTab with an out-of-range
\* index changes nothing.
C38_TabsWellFormed ==
    instPc = "ready" =>
        /\ Len(tabs) >= 1
        /\ tabs[1].isLocal
        /\ \A i \in 2..Len(tabs) : ~tabs[i].isLocal
        /\ \A i, j \in 1..Len(tabs) : tabs[i].alias = tabs[j].alias => i = j
        /\ 0 <= selectedIndex
        /\ selectedIndex < Len(tabs)

C38_OutOfRangeSelect ==
    \E index \in -1..MaxIndex :
        /\ index < 0 \/ index >= Len(tabs)
        /\ selectTab(index)

C38_TabInvariants ==
    /\ []C38_TabsWellFormed
    /\ [][C38_OutOfRangeSelect => UNCHANGED vars]_vars

\* a refresh has removed the tab that was selected and had a client
C38_Witness ==
    /\ instPc = "ready"
    /\ Len(tabs) = 2
    /\ selectedIndex = 1
    /\ detached # {}
    /\ tabs[2].alias \notin detached
    /\ tabs[2].alias \notin DOMAIN clients

\* C39: in every reachable state a remote tab has status connected,
\* connecting or reconnecting only while a RemoteClient for its alias is
\* registered in the clients map; once disconnectAll has returned, every
\* remote tab stays disconnected until that tab is selected again, even if an
\* event of a client created earlier arrives afterwards.
C39_Active(tab) ==
    ~tab.isLocal /\ tab.status \in {"connected", "connecting", "reconnecting"}

C39_ActiveOnlyWithClient ==
    instPc = "ready" =>
        \A i \in 1..Len(tabs) :
            /\ C39_Active(tabs[i]) => tabs[i].alias \in DOMAIN clients
            /\ tabs[i].alias \in quiet => tabs[i].status = "disconnected"

-----------------------------------------------------------------------------
\* C40: for every sandbox configuration, in the argument list built by
\* wrapWithBwrap no path is emitted both with --bind and with --ro-bind: the
\* working directory and every allowPaths entry are bound read-write only,
\* read-write taking precedence over any read-only listing of the same path,
\* and the original command and its arguments are the final elements after
\* '--', unchanged and in order.
C40_Separator ==
    CHOOSE i \in 1..Len(wrapped.args) :
        /\ wrapped.args[i] = <<"--">>
        /\ \A j \in 1..(i - 1) : wrapped.args[j] # <<"--">>

\* the positions of a flag among the options
C40_Positions(flag) ==
    {j \in 1..(C40_Separator - 1) : wrapped.args[j] = <<flag>>}

C40_BoundWith(flag) == {wrapped.args[i + 1] : i \in C40_Positions(flag)}

\* the directory a path string names: empty segments do not count
C40_Directory(path) == SelectSeq(NormalizeFrom(Tail(path), <<>>), LAMBDA x : x # "")

C40_ReadWriteWanted ==
    {resolve(sandboxCall.cwd, <<>>)}
    \cup {IF isAbsolute(sandboxCall.config.allowPaths[i])
          THEN sandboxCall.config.allowPaths[i]
          ELSE resolve(sandboxCall.cwd, sandboxCall.config.allowPaths[i]) :
          i \in {j \in 1..Len(sandboxCall.config.allowPaths) :
                    sandboxCall.config.allowPaths[j] # <<" ">>}}

C40_BindsDisjoint ==
    sandboxPc = "wrapped" =>
        /\ \A rw \in C40_BoundWith("--bind"), ro \in C40_BoundWith("--ro-bind") :
              C40_Directory(rw) # C40_Directory(ro)
        /\ C40_ReadWriteWanted \subseteq C40_BoundWith("--bind")
        /\ SubSeq(wrapped.args, C40_Separator + 1, Len(wrapped.args))
              = <<sandboxCall.command>> \o sandboxCall.args

\* the two ways the statement fails: a system directory that is also the
\* working directory or an allowPaths entry is emitted with both flags, and
\* a read-only listing that spells a read-write directory differently is
\* emitted after its --bind
C40_SystemDirBoundTwice ==
    /\ sandboxPc = "wrapped"
    /\ C40_BoundWith("--bind") \cap C40_BoundWith("--ro-bind") # {}

C40_ReadOnlyAfterReadWrite ==
    /\ sandboxPc = "wrapped"
    /\ \E i \in C40_Positions("--bind"), j \in C40_Positions("--ro-bind") :
          /\ i < j
          /\ C40_Directory(wrapped.args[i + 1]) = C40_Directory(wrapped.args[j + 1])
====
